---------------------------- MODULE Spec2Model ----------------------------
(***************************************************************************)
(* A model of the bank statement engines of the repository:                *)
(*   - the Tag tree built by Camt053Format::from_read and the pre-order    *)
(*     path iterator Camt053Iter (camt053_format.rs, camt053_iterator.rs); *)
(*   - TransactionHolder::new and the comparer loop (transactions_holder.rs*)
(*     and comparer/src/main.rs);                                          *)
(*   - AvailableBalance::merge and Balance::merge (mt940_format.rs);       *)
(*   - Camt053Format::collect_transactions (camt053_format.rs);            *)
(*   - CSVFormat::from_read and write_to (csv_format.rs);                  *)
(*   - MT940Format::parse_block4 and write_to (mt940_format.rs);           *)
(*   - the conversion of a Camt053Format into an MT940Format               *)
(*     (mt940_format.rs);                                                  *)
(*   - CSVFormat::collect_transactions (csv_format.rs);                    *)
(*   - the line loop of MT940Format::from_read (mt940_format.rs);          *)
(*   - MT940Format::collect_transactions (mt940_format.rs);                *)
(*   - MT940Format::parse_61 on one field (mt940_format.rs);               *)
(*   - Camt053Format::write_to (camt053_format.rs).                        *)
(* Each component has its own specification; the variables of the other    *)
(* components stay at their idle value.                                    *)
(***************************************************************************)
EXTENDS Integers, Sequences, FiniteSets, TLC

VARIABLES
    \* ---- CAMT.053 tag tree and iterator
    arena,          \* Seq of Tag records; index 1 is the virtual root
    previous_tag,   \* from_read's current node
    rstate,         \* "idle" | "reading" | "ok" | the FormatError kind returned
    nev,            \* number of XML events consumed
    event,          \* the XML event from_read has consumed last
    root,           \* Camt053Format.root (0 while not built)
    it,             \* Camt053Iter {tag, path, first}
    out,            \* the TagViews yielded so far
    ended,          \* number of times next() has returned None
    \* ---- TransactionHolder and the comparer
    raw1, raw2,     \* what collect_transactions returned for file1 and file2
    holder1, holder2,   \* TransactionHolder.transactions
    cpc,            \* "idle" | "new1" | "new2" | "ab" | "ba" | "end"
    cst,            \* the running comparison: positions of both iterators, outcome
    resAB, resBA,   \* outcome of comparing (file1, file2) and (file2, file1)
    \* ---- Balance merge
    mTarget,        \* the Balance merged into, before the call
    mIncoming,      \* the Balance passed to merge
    mResult,        \* the target after the call
    mpc,            \* "idle" | "ready" | "balance" | "available"
    \* ---- Camt053Format::collect_transactions
    stmtIn,         \* the entries of the statement the tree was read from
    transaction,    \* the local Option<Transaction>
    transactions,   \* the local Vec<Transaction>
    colpc,          \* "idle" | "iter" | "done" | "panic"
    \* ---- CSVFormat
    csvIn,          \* the records of the input x
    csvFmt,         \* from_read(x): the status and the CSVFormat
    csvText,        \* the lines write_to wrote
    csvFmt2,        \* from_read of the written lines
    csvpc,          \* "idle" | "read" | "write" | "reread" | "done" | "failed"
    \* ---- MT940Format
    mtIn,           \* the fields of the block-4 text x
    mtParsed,       \* parse_block4(x): the error kind ("" for Ok) and the messages
    mtOut,          \* the blocks write_to wrote, each the list of its fields
    mtParsed2,      \* the written blocks parsed again
    mtpc,           \* "idle" | "read" | "write" | "reread" | "done" | "failed"
    \* ---- impl From<Camt053Format> for MT940Format
    docIn,          \* the document the tree was read from
    conv,           \* the locals of from(): result, message, base_orgn_msg_id,
                    \* balance, balance_name, statement
    convpc,         \* "idle" | "iter" | "done"
    \* ---- CSVFormat::collect_transactions
    tblIn,          \* the records of the input
    tblFmt,         \* from_read of them
    tblTx,          \* the local Vec<Transaction>
    tblpc,          \* "idle" | "read" | "rows" | "done" | "panic" | "failed"
    \* ---- MT940Format::from_read
    rd,             \* the locals: accum, state, transactions, other_data
    rdN,            \* number of lines read
    rdBroken,       \* a read of the stream has failed
    rdLine,         \* the line read last
    rdpc,           \* "idle" | "lines" | "Ok" | the FormatError kind returned
    \* ---- parse_block4 and MT940Format::collect_transactions
    blkIn,          \* the fields of the payload
    blkParsed,      \* parse_block4 of it: the error kind ("" for Ok) and the messages
    blkTx,          \* the local Vec<Transaction>
    blkAt,          \* the message and the statement line the loops are at
    blkpc,          \* "idle" | "read" | "collect" | "done" | "failed"
    \* ---- parse_61 on one field
    l61Tok,         \* the tokens the text is put together from
    l61In,          \* the text of the field
    l61Out,         \* the Result of parse_61
    l61pc,          \* "idle" | "parse" | "Ok" | "UnknownValueFormat" | "panic"
    \* ---- Camt053Format::write_to
    wrOut,          \* the events written
    wrpc,           \* "idle" | "Ok" | "ReadWriteError"
    \* ---- impl From<MT940Format> for Camt053Format
    mcIn,           \* the messages of the MT940Format converted
    mcTree,         \* the tags of a second conversion of the same messages
    mcpc,           \* "idle" | "from" | "again" | "done"
    \* ---- MT940Format::write_to
    wtIn,           \* the MT940Format written: transactions and other_data
    wtOut,          \* the pieces handed to the writer
    wtpc,           \* "idle" | "write" | "Ok" | "ReadWriteError"
    \* ---- CSVFormat::from_read, record by record
    scan,           \* the locals: state, columns, column_position, table, other_before, other_after
    scanRec,        \* the record read last
    scanN,          \* number of records read
    scanpc          \* "idle" | "records" | "Ok" | "DataFormatError" | "panic"

camtVars == <<arena, previous_tag, rstate, nev, event, root, it, out, ended>>
cmpVars == <<raw1, raw2, holder1, holder2, cpc, cst, resAB, resBA>>
mergeVars == <<mTarget, mIncoming, mResult, mpc>>
colVars == <<stmtIn, transaction, transactions, colpc>>
csvVars == <<csvIn, csvFmt, csvText, csvFmt2, csvpc>>
mtVars == <<mtIn, mtParsed, mtOut, mtParsed2, mtpc>>
convVars == <<docIn, conv, convpc>>
tblVars == <<tblIn, tblFmt, tblTx, tblpc>>
rdVars == <<rd, rdN, rdBroken, rdLine, rdpc>>
blkVars == <<blkIn, blkParsed, blkTx, blkAt, blkpc>>
l61Vars == <<l61Tok, l61In, l61Out, l61pc>>
wrVars == <<wrOut, wrpc>>
mcVars == <<mcIn, mcTree, mcpc>>
wtVars == <<wtIn, wtOut, wtpc>>
scanVars == <<scan, scanRec, scanN, scanpc>>
vars == <<camtVars, cmpVars, mergeVars, colVars, csvVars, mtVars, convVars, tblVars, rdVars, blkVars, l61Vars, wrVars, mcVars, wtVars, scanVars>>

notCamt == <<cmpVars, mergeVars, colVars, csvVars, mtVars, convVars, tblVars, rdVars, blkVars, l61Vars, wrVars, mcVars, wtVars, scanVars>>
notCmp == <<camtVars, mergeVars, colVars, csvVars, mtVars, convVars, tblVars, rdVars, blkVars, l61Vars, wrVars, mcVars, wtVars, scanVars>>
notMerge == <<camtVars, cmpVars, colVars, csvVars, mtVars, convVars, tblVars, rdVars, blkVars, l61Vars, wrVars, mcVars, wtVars, scanVars>>
notCol == <<cmpVars, mergeVars, csvVars, mtVars, convVars, tblVars, rdVars, blkVars, l61Vars, wrVars, mcVars, wtVars, scanVars>>
notCsv == <<camtVars, cmpVars, mergeVars, colVars, mtVars, convVars, tblVars, rdVars, blkVars, l61Vars, wrVars, mcVars, wtVars, scanVars>>
notMt == <<camtVars, cmpVars, mergeVars, colVars, csvVars, convVars, tblVars, rdVars, blkVars, l61Vars, wrVars, mcVars, wtVars, scanVars>>
notConv == <<cmpVars, mergeVars, colVars, csvVars, mtVars, tblVars, rdVars, blkVars, l61Vars, wrVars, mcVars, wtVars, scanVars>>
notTbl == <<camtVars, cmpVars, mergeVars, colVars, csvVars, mtVars, convVars, rdVars, blkVars, l61Vars, wrVars, mcVars, wtVars, scanVars>>
notRd == <<camtVars, cmpVars, mergeVars, colVars, csvVars, mtVars, convVars, tblVars, blkVars, l61Vars, wrVars, mcVars, wtVars, scanVars>>
notBlk == <<camtVars, cmpVars, mergeVars, colVars, csvVars, mtVars, convVars, tblVars, rdVars, l61Vars, wrVars, mcVars, wtVars, scanVars>>
notL61 == <<camtVars, cmpVars, mergeVars, colVars, csvVars, mtVars, convVars, tblVars, rdVars, blkVars, wrVars, mcVars, wtVars, scanVars>>
notWr == <<cmpVars, mergeVars, colVars, csvVars, mtVars, convVars, tblVars, rdVars, blkVars, l61Vars, mcVars, wtVars, scanVars>>
notMc == <<cmpVars, mergeVars, colVars, csvVars, mtVars, convVars, tblVars, rdVars, blkVars, l61Vars, wrVars, wtVars, scanVars>>
notWt == <<camtVars, cmpVars, mergeVars, colVars, csvVars, mtVars, convVars, tblVars, rdVars, blkVars, l61Vars, wrVars, mcVars, scanVars>>
notScan == <<camtVars, cmpVars, mergeVars, colVars, csvVars, mtVars, convVars, tblVars, rdVars, blkVars, l61Vars, wrVars, mcVars, wtVars>>

-----------------------------------------------------------------------------
(* Bounds *)
MaxNodes == 4       \* tags created by one parse (without the virtual root)
MaxEvents == 8      \* XML events read by one parse
MaxEnded == 2       \* calls of next() made after the first None
MaxTx == 2          \* transactions of one statement
MaxEntries == 2     \* Ntry tags of one CAMT.053 statement
MaxRows == 3        \* records of one CSV input
MaxFields == 4      \* fields of one MT940 block-4 text
MaxStmts == 2       \* Stmt subtrees of one converted CAMT.053 document
MaxLines == 6       \* lines of one MT940 input

TagNames == {"A", "B"}
\* a text is the sequence of its characters
Texts == {<<"t">>}

-----------------------------------------------------------------------------
(* Tag, camt053_format.rs:17-23.  parent is a Weak reference: an index into  *)
(* the arena, 0 for Weak::new().  text is Some(..) when hasText.            *)
Tag(name, parent) ==
    [name |-> name, text |-> <<>>, hasText |-> FALSE, attrs |-> <<>>,
     childrens |-> <<>>, parent |-> parent]

VirtualRoot == Tag("", 0)

NoIter == [tag |-> 0, path |-> <<>>, first |-> FALSE]

\* Tags owned (transitively, through childrens) by tag n
RECURSIVE Owned(_, _)
Owned(a, n) ==
    LET ch == a[n].childrens
        RECURSIVE Acc(_)
        Acc(i) == IF i > Len(ch) THEN {} ELSE Owned(a, ch[i]) \cup Acc(i + 1)
    IN {n} \cup Acc(1)

\* The tags still allocated once from_read has returned: those the returned
\* Camt053Format owns through its root.  virtual_root and previous_tag are
\* locals of from_read and are dropped on return.
Alive == IF root = 0 THEN {} ELSE Owned(arena, root)

\* Weak::upgrade on the parent reference of tag n: 0 stands for None
Upgrade(n) ==
    IF arena[n].parent \in Alive THEN arena[n].parent ELSE 0

-----------------------------------------------------------------------------
(* Camt053Format::from_read, one action per XML event *)

\* an XML event: its kind and, for Start and End, the name it carries
XmlEvent(kind, name) == [kind |-> kind, name |-> name]
NoEvent == XmlEvent("", "")

CamtStart(st) ==
    /\ arena = <<VirtualRoot>>
    /\ previous_tag = 1
    /\ rstate = st
    /\ nev = 0
    /\ event = NoEvent
    /\ root = 0
    /\ it = NoIter
    /\ out = <<>>
    /\ ended = 0

CamtIdle == CamtStart("idle")

Reading == rstate = "reading" /\ nev < MaxEvents

Fail(kind) ==
    /\ rstate' = kind
    /\ nev' = nev + 1
    /\ UNCHANGED <<arena, previous_tag, root, it, out, ended>>
    /\ UNCHANGED notCamt

\* Ok(Event::Start(e)): the new tag, or the error of an attribute that
\* cannot be read
EvStart ==
    /\ Reading
    /\ Len(arena) < MaxNodes + 1
    /\ \E name \in TagNames :
        /\ event' = XmlEvent("Start", name)
        /\ \/ /\ LET id == Len(arena) + 1
                     pushed == [arena EXCEPT ![previous_tag].childrens = Append(@, id)]
                 IN /\ arena' = Append(pushed, Tag(name, previous_tag))
                    /\ previous_tag' = id
              /\ nev' = nev + 1
              /\ UNCHANGED <<rstate, root, it, out, ended>>
              /\ UNCHANGED notCamt
           \/ Fail("UnknownValueError")

\* Ok(Event::Text(e))
EvText ==
    /\ Reading
    /\ event' = XmlEvent("Text", "")
    /\ \E t \in Texts :
        IF arena[previous_tag].name = ""
        THEN Fail("DataFormatError")
        ELSE /\ arena' = [arena EXCEPT ![previous_tag].text = t,
                                       ![previous_tag].hasText = TRUE]
             /\ nev' = nev + 1
             /\ UNCHANGED <<previous_tag, rstate, root, it, out, ended>>
             /\ UNCHANGED notCamt

\* an End event that closes the current tag whatever name it carries
EvEndAnyName ==
    /\ Reading
    /\ \E name \in TagNames :
        /\ event' = XmlEvent("End", name)
        /\ IF arena[previous_tag].name = ""
           THEN Fail("DataFormatError")
           ELSE /\ previous_tag' = arena[previous_tag].parent
                /\ nev' = nev + 1
                /\ UNCHANGED <<arena, rstate, root, it, out, ended>>
                /\ UNCHANGED notCamt

\* Ok(Event::End(e)); during the parse every tag's parent is still allocated
EvEnd ==
    /\ Reading
    /\ \E name \in TagNames :
        /\ event' = XmlEvent("End", name)
        /\ IF arena[previous_tag].name = "" \/ arena[previous_tag].name # name
           THEN Fail("DataFormatError")
           ELSE IF arena[previous_tag].parent = 0
                THEN Fail("UnknownError")
                ELSE /\ previous_tag' = arena[previous_tag].parent
                     /\ nev' = nev + 1
                     /\ UNCHANGED <<arena, rstate, root, it, out, ended>>
                     /\ UNCHANGED notCamt

\* Ok(Event::Comment(_)) => continue
EvComment ==
    /\ Reading
    /\ event' = XmlEvent("Comment", "")
    /\ nev' = nev + 1
    /\ UNCHANGED <<arena, previous_tag, rstate, root, it, out, ended>>
    /\ UNCHANGED notCamt

\* Err(e) and every other event
EvOther ==
    /\ Reading
    /\ event' = XmlEvent("Other", "")
    /\ Fail("ReadWriteError")

\* Camt053Iter::new
IterNew(a, r) == [tag |-> r, path |-> <<a[r].name>>, first |-> TRUE]

\* Ok(Event::Eof) => break, then the choice of the root
EvEof ==
    /\ rstate = "reading"
    /\ event' = XmlEvent("Eof", "")
    /\ IF arena[previous_tag].childrens = <<>>
       THEN /\ rstate' = "DataFormatError"
            /\ UNCHANGED <<root, it>>
       ELSE /\ rstate' = "ok"
            /\ root' = arena[previous_tag].childrens[1]
            /\ it' = IterNew(arena, arena[previous_tag].childrens[1])
    /\ nev' = nev + 1
    /\ UNCHANGED <<arena, previous_tag, out, ended>>
    /\ UNCHANGED notCamt

-----------------------------------------------------------------------------
(* Camt053Iter, camt053_iterator.rs *)

\* position(|x| Rc::ptr_eq(x, &self.tag)): 0 stands for None
RECURSIVE PositionFrom(_, _, _)
PositionFrom(ch, n, i) ==
    IF i > Len(ch) THEN 0
    ELSE IF ch[i] = n THEN i ELSE PositionFrom(ch, n, i + 1)

Position(ch, n) == PositionFrom(ch, n, 1)

Pop(s) == IF s = <<>> THEN s ELSE SubSeq(s, 1, Len(s) - 1)

\* get_next_in_parent with the sibling test off by one (idx + 2 >= len)
GetNextInParentSkipsLast(i) ==
    LET p == Upgrade(i.tag)
    IN IF p = 0 THEN [status |-> "Empty", it |-> i]
       ELSE LET path1 == Pop(i.path)
                ch == arena[p].childrens
                idx == Position(ch, i.tag)
            IN IF idx = 0
               THEN [status |-> "Empty", it |-> [i EXCEPT !.path = path1]]
               ELSE IF idx + 2 > Len(ch)
                    THEN [status |-> "NoOtherChildrens",
                          it |-> [i EXCEPT !.path = path1, !.tag = p]]
                    ELSE [status |-> "Exists",
                          it |-> [i EXCEPT !.path = Append(path1, arena[ch[idx + 1]].name),
                                           !.tag = ch[idx + 1]]]

\* get_next_in_parent: the status and the iterator after the call
GetNextInParent(i) ==
    LET p == Upgrade(i.tag)
    IN IF p = 0 THEN [status |-> "Empty", it |-> i]
       ELSE LET path1 == Pop(i.path)
                ch == arena[p].childrens
                idx == Position(ch, i.tag)
            IN IF idx = 0
               THEN [status |-> "Empty", it |-> [i EXCEPT !.path = path1]]
               ELSE IF idx + 1 > Len(ch)
                    THEN [status |-> "NoOtherChildrens",
                          it |-> [i EXCEPT !.path = path1, !.tag = p]]
                    ELSE [status |-> "Exists",
                          it |-> [i EXCEPT !.path = Append(path1, arena[ch[idx + 1]].name),
                                           !.tag = ch[idx + 1]]]

\* the loop of next(): climb until a sibling exists or the walk is over
RECURSIVE ClimbLoop(_)
ClimbLoop(i) ==
    LET r == GetNextInParent(i)
    IN IF r.status = "NoOtherChildrens" THEN ClimbLoop(r.it) ELSE r

\* '/'.to_string() + self.path.join("/"), as the list of its pieces
RECURSIVE Join(_)
Join(path) ==
    IF path = <<>> THEN <<>>
    ELSE IF Len(path) = 1 THEN <<path[1]>>
    ELSE <<path[1], "/">> \o Join(Tail(path))

PathStr(path) == <<"/">> \o Join(path)

View(i) == [node |-> i.tag, path |-> PathStr(i.path)]

\* Iterator::next: [some, view, it]
IterStep(i) ==
    IF i.first
    THEN [some |-> TRUE, view |-> View(i), it |-> [i EXCEPT !.first = FALSE]]
    ELSE IF arena[i.tag].childrens # <<>>
         THEN LET c == arena[i.tag].childrens[1]
                  j == [i EXCEPT !.path = Append(@, arena[c].name), !.tag = c]
              IN [some |-> TRUE, view |-> View(j), it |-> j]
         ELSE LET r == ClimbLoop(i)
              IN IF r.status = "Exists"
                 THEN [some |-> TRUE, view |-> View(r.it), it |-> r.it]
                 ELSE [some |-> FALSE, view |-> View(r.it), it |-> r.it]

IterNext ==
    /\ rstate = "ok"
    /\ ended <= MaxEnded
    /\ LET r == IterStep(it)
       IN /\ it' = r.it
          /\ IF r.some
             THEN out' = Append(out, r.view) /\ ended' = ended
             ELSE out' = out /\ ended' = ended + 1
    /\ UNCHANGED <<arena, previous_tag, rstate, nev, event, root>>
    /\ UNCHANGED notCamt

-----------------------------------------------------------------------------
(* Transaction, TransactionHolder::new and the comparer loop *)

Transaction(a, c, d, o) == [amount |-> a, currency |-> c, date |-> d, operation_type |-> o]

\* The transactions a statement may hold: one base transaction and one
\* variation of it per field.  Dates are day numbers.
TxSet ==
    { Transaction(10, "EUR", 1, "Debit"),
      Transaction(20, "EUR", 1, "Debit"),
      Transaction(10, "USD", 1, "Debit"),
      Transaction(10, "EUR", 2, "Debit"),
      Transaction(10, "EUR", 1, "Credit") }

TxLists == UNION { [1..n -> TxSet] : n \in 0..MaxTx }

\* impl fmt::Display for Transaction: "{amount} от {date}"
Display(t) == <<t.amount, t.date>>

\* sort_by_key(|x| x.date) that puts an element before the equal keys already
\* placed
InsertByDateBeforeEqual(sorted, x) ==
    LET n == Cardinality({k \in 1..Len(sorted) : sorted[k].date < x.date})
    IN SubSeq(sorted, 1, n) \o <<x>> \o SubSeq(sorted, n + 1, Len(sorted))

\* sort_by_key(|x| x.date) is a stable sort: an element goes behind every
\* element already placed whose key is not greater
InsertByDate(sorted, x) ==
    LET n == Cardinality({k \in 1..Len(sorted) : sorted[k].date <= x.date})
    IN SubSeq(sorted, 1, n) \o <<x>> \o SubSeq(sorted, n + 1, Len(sorted))

RECURSIVE SortByDateFrom(_, _, _)
SortByDateFrom(list, k, acc) ==
    IF k > Len(list) THEN acc
    ELSE SortByDateFrom(list, k + 1, InsertByDate(acc, list[k]))

\* TransactionHolder::new
HolderNew(collected) == SortByDateFrom(collected, 1, <<>>)

NoReport == [kind |-> "none"]
Identical == [kind |-> "identical"]
\* "Транзакция {t} есть в {has} но нет в {lacks}"
Mismatch(t, has, lacks) ==
    [kind |-> "mismatch", shown |-> Display(t), has |-> has, lacks |-> lacks]

CmpStart == [i1 |-> 0, i2 |-> 0, report |-> NoReport]

\* the loop body in which only the first file's surplus is reported
CmpBodyOneSided(h1, h2, st) ==
    IF st.i1 < Len(h1)
    THEN IF st.i2 < Len(h2)
         THEN [st EXCEPT !.i1 = @ + 1, !.i2 = @ + 1]
         ELSE [st EXCEPT !.i1 = @ + 1, !.report = Mismatch(h1[st.i1 + 1], 1, 2)]
    ELSE [st EXCEPT !.report = Identical]

\* the loop body in which the second file's surplus is reported as the first's
CmpBodyWrongSide(h1, h2, st) ==
    IF st.i1 < Len(h1)
    THEN IF st.i2 < Len(h2)
         THEN [st EXCEPT !.i1 = @ + 1, !.i2 = @ + 1]
         ELSE [st EXCEPT !.i1 = @ + 1, !.report = Mismatch(h1[st.i1 + 1], 1, 2)]
    ELSE IF st.i2 < Len(h2)
         THEN [st EXCEPT !.i2 = @ + 1, !.report = Mismatch(h2[st.i2 + 1], 1, 2)]
         ELSE [st EXCEPT !.report = Identical]

\* One pass of the loop of main over the iterators of the two holders; the
\* iterators have yielded st.i1 and st.i2 elements.  When t1 and t2 are both
\* there, `if t1 == t2 { continue; }` and falling out of the `if` both lead to
\* the next pass.
CmpBody(h1, h2, st) ==
    IF st.i1 < Len(h1)
    THEN IF st.i2 < Len(h2)
         THEN IF h1[st.i1 + 1] = h2[st.i2 + 1]
              THEN [st EXCEPT !.i1 = @ + 1, !.i2 = @ + 1]
              ELSE [st EXCEPT !.i1 = @ + 1, !.i2 = @ + 1]
         ELSE [st EXCEPT !.i1 = @ + 1, !.report = Mismatch(h1[st.i1 + 1], 1, 2)]
    ELSE IF st.i2 < Len(h2)
         THEN [st EXCEPT !.i2 = @ + 1, !.report = Mismatch(h2[st.i2 + 1], 2, 1)]
         ELSE [st EXCEPT !.report = Identical]

CmpIdle ==
    /\ raw1 = <<>> /\ raw2 = <<>>
    /\ holder1 = <<>> /\ holder2 = <<>>
    /\ cpc = "idle"
    /\ cst = CmpStart
    /\ resAB = NoReport /\ resBA = NoReport

\* the two files' collect_transactions results
CmpInput ==
    /\ raw1 \in TxLists /\ raw2 \in TxLists
    /\ holder1 = <<>> /\ holder2 = <<>>
    /\ cpc = "new1"
    /\ cst = CmpStart
    /\ resAB = NoReport /\ resBA = NoReport

\* let holder1 = get_holder(cli.file1_format, &cli.file1)?
NewHolder1 ==
    /\ cpc = "new1"
    /\ holder1' = HolderNew(raw1)
    /\ cpc' = "new2"
    /\ UNCHANGED <<raw1, raw2, holder2, cst, resAB, resBA>>
    /\ UNCHANGED notCmp

\* let holder2 = get_holder(cli.file2_format, &cli.file2)?
NewHolder2 ==
    /\ cpc = "new2"
    /\ holder2' = HolderNew(raw2)
    /\ cpc' = "ab"
    /\ UNCHANGED <<raw1, raw2, holder1, cst, resAB, resBA>>
    /\ UNCHANGED notCmp

\* a pass of the loop, comparer --file1 A --file2 B
CmpPassAB ==
    /\ cpc = "ab"
    /\ LET st == CmpBody(holder1, holder2, cst)
       IN IF st.report = NoReport
          THEN cst' = st /\ UNCHANGED <<cpc, resAB>>
          ELSE cst' = CmpStart /\ resAB' = st.report /\ cpc' = "ba"
    /\ UNCHANGED <<raw1, raw2, holder1, holder2, resBA>>
    /\ UNCHANGED notCmp

\* a pass of the loop, comparer --file1 B --file2 A
CmpPassBA ==
    /\ cpc = "ba"
    /\ LET st == CmpBody(holder2, holder1, cst)
       IN IF st.report = NoReport
          THEN cst' = st /\ UNCHANGED <<cpc, resBA>>
          ELSE cst' = st /\ resBA' = st.report /\ cpc' = "end"
    /\ UNCHANGED <<raw1, raw2, holder1, holder2, resAB>>
    /\ UNCHANGED notCmp

-----------------------------------------------------------------------------
(* Decimal, NaiveDate, AvailableBalance, Balance and merge, mt940_format.rs *)

\* rust_decimal::Decimal: m / 10^s
Dec(m, s) == [m |-> m, s |-> s]
DecZero == Dec(0, 0)
DecIsZero(d) == d.m = 0

\* chrono::NaiveDate; NaiveDate::default() is 1970-01-01
Date(y, m, d) == [y |-> y, m |-> m, d |-> d]
DefaultDate == Date(1970, 1, 1)

DebitOrCredit == {"Debit", "Credit", "ReverseDebit", "ReverseCredit"}

AvailableBalance(dc, date, cur, amount) ==
    [debit_credit_indicator |-> dc, date |-> date, iso_currency_code |-> cur, amount |-> amount]

DefaultAvailableBalance == AvailableBalance("Debit", DefaultDate, <<>>, DecZero)

Balance(im, ab) == [is_intermediate |-> im, balance |-> ab]

DefaultBalance == Balance(FALSE, DefaultAvailableBalance)

\* AvailableBalance::merge that takes the incoming date whatever it is
AvailableMergeAlwaysDate(self, balance) ==
    LET s1 == IF balance.debit_credit_indicator # "Debit"
              THEN [self EXCEPT !.debit_credit_indicator = balance.debit_credit_indicator]
              ELSE self
        s2 == [s1 EXCEPT !.date = balance.date]
        s3 == IF balance.iso_currency_code # <<>>
              THEN [s2 EXCEPT !.iso_currency_code = balance.iso_currency_code]
              ELSE s2
    IN IF ~DecIsZero(balance.amount) THEN [s3 EXCEPT !.amount = balance.amount] ELSE s3

\* AvailableBalance::merge
AvailableMerge(self, balance) ==
    LET s1 == IF balance.debit_credit_indicator # "Debit"
              THEN [self EXCEPT !.debit_credit_indicator = balance.debit_credit_indicator]
              ELSE self
        s2 == IF balance.date # DefaultDate THEN [s1 EXCEPT !.date = balance.date] ELSE s1
        s3 == IF balance.iso_currency_code # <<>>
              THEN [s2 EXCEPT !.iso_currency_code = balance.iso_currency_code]
              ELSE s2
    IN IF ~DecIsZero(balance.amount) THEN [s3 EXCEPT !.amount = balance.amount] ELSE s3

\* Balance::merge
BalanceMerge(self, balance) ==
    LET s1 == IF balance.is_intermediate THEN [self EXCEPT !.is_intermediate = TRUE] ELSE self
    IN [s1 EXCEPT !.balance = AvailableMerge(self.balance, balance.balance)]

\* the balances merge is tried on: every indicator, a default and a set date,
\* an empty and two set currencies, the zero amount in two scales and a
\* non-zero amount
MergeBalances ==
    { Balance(im, AvailableBalance(dc, d, c, a)) :
        im \in BOOLEAN, dc \in DebitOrCredit,
        d \in {DefaultDate, Date(2024, 1, 2)},
        c \in {<<>>, <<"E", "U", "R">>, <<"U", "S", "D">>},
        a \in {DecZero, Dec(0, 2), Dec(12310, 2)} }

MergeIdle ==
    /\ mTarget = DefaultBalance /\ mIncoming = DefaultBalance /\ mResult = DefaultBalance
    /\ mpc = "idle"

MergeInput ==
    /\ mTarget \in MergeBalances /\ mIncoming \in MergeBalances
    /\ mResult = mTarget
    /\ mpc = "ready"

\* target.merge(&incoming) on two Balances
MergeBalance ==
    /\ mpc = "ready"
    /\ mResult' = BalanceMerge(mTarget, mIncoming)
    /\ mpc' = "balance"
    /\ UNCHANGED <<mTarget, mIncoming>>
    /\ UNCHANGED notMerge

\* target.balance.merge(&incoming.balance), as the converter calls it
MergeAvailable ==
    /\ mpc = "ready"
    /\ mResult' = [mTarget EXCEPT !.balance = AvailableMerge(mTarget.balance, mIncoming.balance)]
    /\ mpc' = "available"
    /\ UNCHANGED <<mTarget, mIncoming>>
    /\ UNCHANGED notMerge

-----------------------------------------------------------------------------
(* Camt053Format::collect_transactions, camt053_format.rs:519-566 *)

Digits == <<"0", "1", "2", "3", "4", "5", "6", "7", "8", "9">>

IsDigit(c) == \E k \in 1..Len(Digits) : Digits[k] = c

DigitVal(c) == (CHOOSE k \in 1..Len(Digits) : Digits[k] = c) - 1

AllDigits(s) == \A k \in 1..Len(s) : IsDigit(s[k])

\* the number a string of digits denotes
RECURSIVE Num(_)
Num(s) == IF s = <<>> THEN 0 ELSE Num(SubSeq(s, 1, Len(s) - 1)) * 10 + DigitVal(s[Len(s)])

IsLeap(y) == (y % 4 = 0 /\ y % 100 # 0) \/ y % 400 = 0

DaysIn(y, m) ==
    IF m = 2 THEN (IF IsLeap(y) THEN 29 ELSE 28)
    ELSE IF m \in {4, 6, 9, 11} THEN 30 ELSE 31

ParseErr == [ok |-> FALSE]

\* the calendar check of NaiveDate
MakeDate(y, m, d) ==
    IF m \in 1..12 /\ d >= 1 /\ d <= DaysIn(y, m)
    THEN [ok |-> TRUE, v |-> Date(y, m, d)]
    ELSE ParseErr

\* NaiveDate::parse_from_str(s, "%Y-%m-%d") on a text of four digits, '-',
\* two digits, '-', two digits; any other text is an Err
ParseDateYmdDash(s) ==
    IF /\ Len(s) = 10
       /\ AllDigits(SubSeq(s, 1, 4)) /\ s[5] = "-"
       /\ AllDigits(SubSeq(s, 6, 7)) /\ s[8] = "-"
       /\ AllDigits(SubSeq(s, 9, 10))
    THEN MakeDate(Num(SubSeq(s, 1, 4)), Num(SubSeq(s, 6, 7)), Num(SubSeq(s, 9, 10)))
    ELSE ParseErr

\* str::replace(",", ".")
ReplaceComma(s) == [k \in 1..Len(s) |-> IF s[k] = "," THEN "." ELSE s[k]]

\* positions of the '.' of s
Dots(s) == {k \in 1..Len(s) : s[k] = "."}

\* Decimal::from_str on digits with at most one '.': the mantissa is the
\* digits read as one number, the scale the count of digits behind the '.'
ParseDecimal(s) ==
    LET dots == Dots(s)
        digs == SelectSeq(s, IsDigit)
    IN IF /\ Cardinality(dots) <= 1
          /\ digs # <<>>
          /\ \A k \in 1..Len(s) : IsDigit(s[k]) \/ s[k] = "."
       THEN [ok |-> TRUE,
             v |-> Dec(Num(digs),
                       IF dots = {} THEN 0 ELSE Len(s) - (CHOOSE k \in dots : TRUE))]
       ELSE ParseErr

\* TagView::get_attr: [some, v]
RECURSIVE FindAttr(_, _)
FindAttr(attrs, name) ==
    IF attrs = <<>> THEN [some |-> FALSE]
    ELSE IF attrs[1][1] = name THEN [some |-> TRUE, v |-> attrs[1][2]]
    ELSE FindAttr(Tail(attrs), name)

\* TagView::text
TextOf(n) == IF arena[n].hasText THEN arena[n].text ELSE <<>>

\* name.starts_with("Stmt"), for the tag names of the statements read here:
\* none of them has Stmt as a proper prefix
StartsWithStmt(name) == name = "Stmt"

\* path.find("/Stmt") on the pieces of the path: the index of the '/' piece,
\* 0 for None
FindStmt(path) ==
    LET hits == {k \in 1..(Len(path) - 1) : path[k] = "/" /\ StartsWithStmt(path[k + 1])}
    IN IF hits = {} THEN 0 ELSE CHOOSE k \in hits : \A j \in hits : k <= j

DefaultTransaction == Transaction(DecZero, <<>>, DefaultDate, "Debit")

NoTransaction == [some |-> FALSE, t |-> DefaultTransaction]

Some(t) == [some |-> TRUE, t |-> t]

\* the body of the for loop for one TagView: the locals after it;
\* panic is set when &val[..10] is out of range
CollectBody(view, tr, trs) ==
    LET s == FindStmt(view.path)
        sub == SubSeq(view.path, s, Len(view.path))
        text == TextOf(view.node)
        same == [panic |-> FALSE, transaction |-> tr, transactions |-> trs]
    IN IF s = 0 THEN same
       ELSE IF sub = <<"/", "Stmt", "/", "Ntry">>
       THEN [panic |-> FALSE,
             transaction |-> Some(DefaultTransaction),
             transactions |-> IF tr.some THEN Append(trs, tr.t) ELSE trs]
       ELSE IF sub = <<"/", "Stmt", "/", "Ntry", "/", "Amt">>
       THEN IF tr.some
            THEN LET amount == ParseDecimal(ReplaceComma(text))
                     curr == FindAttr(arena[view.node].attrs, "Ccy")
                     t1 == IF amount.ok THEN [tr.t EXCEPT !.amount = amount.v] ELSE tr.t
                     t2 == IF curr.some THEN [t1 EXCEPT !.currency = curr.v] ELSE t1
                 IN [same EXCEPT !.transaction = Some(t2)]
            ELSE same
       ELSE IF sub = <<"/", "Stmt", "/", "Ntry", "/", "CdtDbtInd">>
       THEN IF tr.some
            THEN [same EXCEPT !.transaction =
                     Some([tr.t EXCEPT !.operation_type =
                              IF text = <<"C", "R", "D", "T">> THEN "Credit" ELSE "Debit"])]
            ELSE same
       ELSE IF sub = <<"/", "Stmt", "/", "Ntry", "/", "ValDt", "/", "Dt">>
       THEN IF tr.some
            THEN IF Len(text) < 10
                 THEN [same EXCEPT !.panic = TRUE]
                 ELSE LET d == ParseDateYmdDash(SubSeq(text, 1, 10))
                      IN IF d.ok THEN [same EXCEPT !.transaction = Some([tr.t EXCEPT !.date = d.v])]
                         ELSE same
            ELSE same
       ELSE same

-----------------------------------------------------------------------------
(* The statements collect_transactions is run on: Document/Stmt with entries *)
(* that carry an optional Amt, a CdtDbtInd and an optional ValDt/Dt.         *)

Absent == [present |-> FALSE, hasText |-> FALSE, text |-> <<>>, attrs |-> <<>>]
NoText == [present |-> TRUE, hasText |-> FALSE, text |-> <<>>, attrs |-> <<>>]
Field(text, attrs) == [present |-> TRUE, hasText |-> TRUE, text |-> text, attrs |-> attrs]

AmtFields ==
    { Absent,
      Field(<<"1", "2", ",", "5">>, << <<"Ccy", <<"E", "U", "R">> >> >>),
      Field(<<"x">>, <<>>) }

IndFields ==
    { Field(<<"C", "R", "D", "T">>, <<>>), Field(<<"z">>, <<>>) }

DtFields ==
    { Absent,
      Field(<<"2", "0", "2", "6", "-", "0", "1", "-", "2", "0">>, <<>>),
      Field(<<"2", "0", "2", "6", "-", "0", "2", "-", "3", "0", "Z">>, <<>>),
      Field(<<"2", "0", "2", "6">>, <<>>),
      NoText }

Entries == [amt : AmtFields, ind : IndFields, dt : DtFields]

Statements == UNION { [1..n -> Entries] : n \in 0..MaxEntries }

\* what the Start, Text and End events of one element leave in the tree
AddTag(a, parent, name, f) ==
    Append([a EXCEPT ![parent].childrens = Append(@, Len(a) + 1)],
           [name |-> name, text |-> f.text, hasText |-> f.hasText, attrs |-> f.attrs,
            childrens |-> <<>>, parent |-> parent])

AddEntry(a, stmt, e) ==
    LET a1 == AddTag(a, stmt, "Ntry", NoText)
        ntry == Len(a1)
        a2 == IF e.amt.present THEN AddTag(a1, ntry, "Amt", e.amt) ELSE a1
        a3 == IF e.ind.present THEN AddTag(a2, ntry, "CdtDbtInd", e.ind) ELSE a2
        a4 == IF e.dt.present
              THEN LET v == AddTag(a3, ntry, "ValDt", NoText)
                   IN AddTag(v, Len(v), "Dt", e.dt)
              ELSE a3
    IN a4

RECURSIVE AddEntries(_, _, _, _)
AddEntries(a, stmt, es, k) ==
    IF k > Len(es) THEN a ELSE AddEntries(AddEntry(a, stmt, es[k]), stmt, es, k + 1)

\* the tree from_read builds: tag 1 the virtual root, 2 Document, 3 Stmt
BuildArena(es) ==
    LET a1 == AddTag(<<VirtualRoot>>, 1, "Document", NoText)
        a2 == AddTag(a1, 2, "Stmt", NoText)
    IN AddEntries(a2, 3, es, 1)

ColIdle ==
    /\ stmtIn = <<>> /\ transaction = NoTransaction /\ transactions = <<>> /\ colpc = "idle"

\* the state when collect_transactions is entered, get_iter() taken
ColInput ==
    /\ stmtIn \in Statements
    /\ arena = BuildArena(stmtIn)
    /\ previous_tag = 1 /\ rstate = "ok" /\ nev = 0 /\ event = NoEvent
    /\ root = 2
    /\ it = IterNew(arena, 2)
    /\ out = <<>> /\ ended = 0
    /\ transaction = NoTransaction /\ transactions = <<>>
    /\ colpc = "iter"

\* one turn of the for loop
CollectItem ==
    /\ colpc = "iter"
    /\ LET r == IterStep(it)
       IN /\ r.some
          /\ it' = r.it
          /\ LET b == CollectBody(r.view, transaction, transactions)
             IN /\ transaction' = b.transaction
                /\ transactions' = b.transactions
                /\ colpc' = IF b.panic THEN "panic" ELSE "iter"
    /\ UNCHANGED <<arena, previous_tag, rstate, nev, event, root, out, ended, stmtIn>>
    /\ UNCHANGED notCol

\* collect_transactions that returns without pushing the pending transaction
CollectReturnNoFlush ==
    /\ colpc = "iter"
    /\ LET r == IterStep(it)
       IN /\ ~r.some
          /\ it' = r.it
    /\ transactions' = transactions
    /\ transaction' = NoTransaction
    /\ colpc' = "done"
    /\ UNCHANGED <<arena, previous_tag, rstate, nev, event, root, out, ended, stmtIn>>
    /\ UNCHANGED notCol

\* the iterator is exhausted: the pending transaction is pushed and the list
\* returned
CollectReturn ==
    /\ colpc = "iter"
    /\ LET r == IterStep(it)
       IN /\ ~r.some
          /\ it' = r.it
    /\ transactions' = IF transaction.some THEN Append(transactions, transaction.t)
                       ELSE transactions
    /\ transaction' = NoTransaction
    /\ colpc' = "done"
    /\ UNCHANGED <<arena, previous_tag, rstate, nev, event, root, out, ended, stmtIn>>
    /\ UNCHANGED notCol

-----------------------------------------------------------------------------
(* CSVFormat, csv_format.rs.  A cell is the sequence of its pieces: "DP" is  *)
(* the text "Дата проводки", "x" a letter, "1" a digit, " " a blank.  A      *)
(* record is a sequence of cells, a written line a sequence of pieces in     *)
(* which "," separates the cells.                                            *)

EmptyCell == <<>>
DateColumn == <<"DP">>

\* str::trim
RECURSIVE TrimStart(_)
TrimStart(c) == IF c # <<>> /\ c[1] = " " THEN TrimStart(Tail(c)) ELSE c

RECURSIVE TrimEnd(_)
TrimEnd(c) == IF c # <<>> /\ c[Len(c)] = " " THEN TrimEnd(SubSeq(c, 1, Len(c) - 1)) ELSE c

Trim(c) == TrimEnd(TrimStart(c))

\* is_header_like: no cell holds an ASCII digit
is_header_like(cells) ==
    \A k \in 1..Len(cells) : ~(cells[k] # <<>> /\ \E j \in 1..Len(cells[k]) : IsDigit(cells[k][j]))

\* join_columns: every non-empty cell is appended to its column
join_columns(columns, cells) ==
    [k \in 1..Len(columns) |-> IF cells[k] # <<>> THEN columns[k] \o cells[k] ELSE columns[k]]

\* the locals of from_read before the first record; column_position is kept
\* as the first and the last position of the header span, counted from 1
ScanStart ==
    [state |-> "Before", columns |-> <<>>, first |-> 1, last |-> 0,
     table |-> <<>>, other_before |-> <<>>, other_after |-> <<>>, panic |-> FALSE]

\* &cells[column_position.0..column_position.1] is out of range
SliceFails(st, cells) == st.last > Len(cells)

Slice(st, cells) == SubSeq(cells, st.first, st.last)

\* the loop body in which a row with a filled cell met in After is a table
\* row again
ScanRecordLeavesAfter(st, rec) ==
    LET cells == [k \in 1..Len(rec) |-> Trim(rec[k])]
        filled == {k \in 1..Len(cells) : cells[k] # <<>>}
    IN IF st.state = "Before"
       THEN IF \E k \in 1..Len(cells) : cells[k] = DateColumn
            THEN LET f == CHOOSE k \in filled : \A j \in filled : k <= j
                     l == CHOOSE k \in filled : \A j \in filled : k >= j
                 IN [st EXCEPT !.first = f, !.last = l,
                               !.columns = SubSeq(cells, f, l), !.state = "Header"]
            ELSE [st EXCEPT !.other_before = Append(@, cells)]
       ELSE IF st.state = "Header"
       THEN IF SliceFails(st, cells) THEN [st EXCEPT !.panic = TRUE]
            ELSE IF is_header_like(Slice(st, cells))
                 THEN [st EXCEPT !.columns = join_columns(@, Slice(st, cells))]
                 ELSE [st EXCEPT !.state = "Data", !.table = Append(@, Slice(st, cells))]
       ELSE IF filled = {}
       THEN [st EXCEPT !.other_after = Append(@, cells), !.state = "After"]
       ELSE IF SliceFails(st, cells) THEN [st EXCEPT !.panic = TRUE]
            ELSE [st EXCEPT !.table = Append(@, Slice(st, cells)), !.state = "Data"]

\* the body of the for loop of from_read for one record
ScanRecord(st, rec) ==
    LET cells == [k \in 1..Len(rec) |-> Trim(rec[k])]
        filled == {k \in 1..Len(cells) : cells[k] # <<>>}
    IN IF st.state = "Before"
       THEN IF \E k \in 1..Len(cells) : cells[k] = DateColumn
            THEN LET f == CHOOSE k \in filled : \A j \in filled : k <= j
                     l == CHOOSE k \in filled : \A j \in filled : k >= j
                 IN [st EXCEPT !.first = f, !.last = l,
                               !.columns = SubSeq(cells, f, l), !.state = "Header"]
            ELSE [st EXCEPT !.other_before = Append(@, cells)]
       ELSE IF st.state = "Header"
       THEN IF SliceFails(st, cells) THEN [st EXCEPT !.panic = TRUE]
            ELSE IF is_header_like(Slice(st, cells))
                 THEN [st EXCEPT !.columns = join_columns(@, Slice(st, cells))]
                 ELSE [st EXCEPT !.state = "Data", !.table = Append(@, Slice(st, cells))]
       ELSE IF st.state = "Data"
       THEN IF filled = {}
            THEN [st EXCEPT !.other_after = Append(@, cells), !.state = "After"]
            ELSE IF SliceFails(st, cells) THEN [st EXCEPT !.panic = TRUE]
                 ELSE [st EXCEPT !.table = Append(@, Slice(st, cells))]
       ELSE [st EXCEPT !.other_after = Append(@, cells)]

RECURSIVE ScanFrom(_, _, _)
ScanFrom(recs, k, st) ==
    IF k > Len(recs) \/ st.panic THEN st
    ELSE ScanFrom(recs, k + 1, ScanRecord(st, recs[k]))

NoCsv ==
    [status |-> "none", columns |-> <<>>, table |-> <<>>,
     other_before |-> <<>>, other_after |-> <<>>]

\* CSVFormat::from_read on the records the csv reader yields
CsvFromRecords(recs) ==
    LET st == ScanFrom(recs, 1, ScanStart)
    IN IF st.panic THEN [NoCsv EXCEPT !.status = "panic"]
       ELSE IF st.columns = <<>> \/ st.table = <<>>
       THEN [NoCsv EXCEPT !.status = "DataFormatError"]
       ELSE [status |-> "ok", columns |-> st.columns, table |-> st.table,
             other_before |-> st.other_before, other_after |-> st.other_after]

\* csv::Writer::write_record for cells that need no quoting: the cells joined
\* by ','; a record of one empty cell is written as a pair of quotes
RECURSIVE JoinCells(_)
JoinCells(row) ==
    IF row = <<>> THEN <<>>
    ELSE IF Len(row) = 1 THEN row[1]
    ELSE row[1] \o <<",">> \o JoinCells(Tail(row))

WriteRecord(row) == IF row = <<EmptyCell>> THEN <<"\"", "\"">> ELSE JoinCells(row)

\* CSVFormat::write_to: the lines written
CsvWriteTo(fmt) ==
    LET rows == fmt.other_before \o <<fmt.columns>> \o fmt.table \o fmt.other_after
    IN [k \in 1..Len(rows) |-> WriteRecord(rows[k])]

\* the csv reader on one line: the cells between the ','
RECURSIVE SplitLine(_, _)
SplitLine(line, cur) ==
    IF line = <<>> THEN <<cur>>
    ELSE IF line[1] = "," THEN <<cur>> \o SplitLine(Tail(line), <<>>)
    ELSE SplitLine(Tail(line), Append(cur, line[1]))

ReadLine(line) == IF line = <<"\"", "\"">> THEN <<EmptyCell>> ELSE SplitLine(line, <<>>)

\* rdr.records(): empty lines yield no record
RECURSIVE ReadRecords(_)
ReadRecords(lines) ==
    IF lines = <<>> THEN <<>>
    ELSE IF lines[1] = <<>> THEN ReadRecords(Tail(lines))
    ELSE <<ReadLine(lines[1])>> \o ReadRecords(Tail(lines))

\* the cells and records of the inputs
CsvCells == {EmptyCell, DateColumn, <<"x">>, <<"1">>}
PaddedCells == {<<" ">>, <<" ", "DP", " ">>}

CsvRows ==
    {<<a>> : a \in CsvCells \cup PaddedCells} \cup {<<a, b>> : a \in CsvCells, b \in CsvCells}

CsvInputs == UNION { [1..n -> CsvRows] : n \in 0..MaxRows }

CsvIdle ==
    /\ csvIn = <<>> /\ csvFmt = NoCsv /\ csvText = <<>> /\ csvFmt2 = NoCsv /\ csvpc = "idle"

CsvInput ==
    /\ csvIn \in CsvInputs
    /\ csvFmt = NoCsv /\ csvText = <<>> /\ csvFmt2 = NoCsv
    /\ csvpc = "read"

\* CSVFormat::from_read(x)
CsvParse ==
    /\ csvpc = "read"
    /\ csvFmt' = CsvFromRecords(csvIn)
    /\ csvpc' = IF csvFmt'.status = "ok" THEN "write" ELSE "failed"
    /\ UNCHANGED <<csvIn, csvText, csvFmt2>>
    /\ UNCHANGED notCsv

\* fmt.write_to(&mut out)
CsvWrite ==
    /\ csvpc = "write"
    /\ csvText' = CsvWriteTo(csvFmt)
    /\ csvpc' = "reread"
    /\ UNCHANGED <<csvIn, csvFmt, csvFmt2>>
    /\ UNCHANGED notCsv

\* CSVFormat::from_read(out)
CsvReparse ==
    /\ csvpc = "reread"
    /\ csvFmt2' = CsvFromRecords(ReadRecords(csvText))
    /\ csvpc' = "done"
    /\ UNCHANGED <<csvIn, csvFmt, csvText>>
    /\ UNCHANGED notCsv

-----------------------------------------------------------------------------
(* MT940Format, mt940_format.rs.  A field value is the sequence of its      *)
(* characters; parse_fields of the swift_mt_message crate is taken as the   *)
(* list of (tag, value) fields of the block.                                *)

None == [some |-> FALSE]
Opt(v) == [some |-> TRUE, v |-> v]

Letters ==
    {"A", "B", "C", "D", "E", "F", "K", "M", "N", "Q", "R", "S", "T", "U", "X"}

\* char::is_ascii_alphabetic, for the characters of the model
IsAlpha(c) == c \in Letters

\* the decimal digits of n, most significant first
RECURSIVE NumDigits(_)
NumDigits(n) == IF n < 10 THEN <<Digits[n + 1]>> ELSE Append(NumDigits(n \div 10), Digits[(n % 10) + 1])

\* zero padding to a width of w
RECURSIVE PadZero(_, _)
PadZero(s, w) == IF Len(s) >= w THEN s ELSE PadZero(<<"0">> \o s, w)

\* the digits ds with a '.' before the last scale of them
PointAt(ds, scale) ==
    IF scale = 0 THEN ds
    ELSE SubSeq(ds, 1, Len(ds) - scale) \o <<".">> \o SubSeq(ds, Len(ds) - scale + 1, Len(ds))

\* Decimal::to_string for a non-negative value: the scale is kept
DecToString(d) == PointAt(PadZero(NumDigits(d.m), d.s + 1), d.s)

\* NaiveDate::format("%y%m%d"), ("%m%d") and ("%Y%m%d")
Pad2(n) == PadZero(NumDigits(n), 2)
FormatMd(d) == Pad2(d.m) \o Pad2(d.d)
FormatYmd2(d) == Pad2(d.y % 100) \o Pad2(d.m) \o Pad2(d.d)
FormatYmd4(d) == PadZero(NumDigits(d.y), 4) \o Pad2(d.m) \o Pad2(d.d)

\* the year of a two digit year: below 70 it is in 2000..2069, else in
\* 1970..1999
PivotYear(yy) == IF yy < 70 THEN 2000 + yy ELSE 1900 + yy

\* NaiveDate::parse_from_str(s, "%y%m%d") on six characters
ParseYmd2(s) ==
    IF Len(s) = 6 /\ AllDigits(s)
    THEN MakeDate(PivotYear(Num(SubSeq(s, 1, 2))), Num(SubSeq(s, 3, 4)), Num(SubSeq(s, 5, 6)))
    ELSE ParseErr

\* DebitOrCredit::to_string, common.rs
DcToString(dc) ==
    CASE dc = "Debit" -> <<"D">>
      [] dc = "Credit" -> <<"C">>
      [] dc = "ReverseDebit" -> <<"R", "C">>
      [] dc = "ReverseCredit" -> <<"R", "D">>

\* DebitOrCredit::from_str, common.rs
DcFromStr(s) ==
    IF s = <<"C">> THEN [ok |-> TRUE, v |-> "Credit"]
    ELSE IF s = <<"D">> THEN [ok |-> TRUE, v |-> "Debit"]
    ELSE IF s = <<"R", "D">> THEN [ok |-> TRUE, v |-> "ReverseCredit"]
    ELSE IF s = <<"R", "C">> THEN [ok |-> TRUE, v |-> "ReverseDebit"]
    ELSE ParseErr

\* parse_balance, the Ok(Balance {..}) or the first Err of its parts
BalanceOf(ext_dc, date, cur, amount, is_intermediate) ==
    IF ~ext_dc.ok \/ ~date.ok \/ ~amount.ok THEN ParseErr
    ELSE [ok |-> TRUE,
          v |-> Balance(is_intermediate, AvailableBalance(ext_dc.v, date.v, cur, amount.v))]

\* parse_balance behind s.trim()
ParseTrimmedBalance(s, size, is_intermediate) ==
    IF Len(s) < size THEN ParseErr
    ELSE BalanceOf(DcFromStr(SubSeq(s, 1, 1)), ParseYmd2(SubSeq(s, 2, 7)), SubSeq(s, 8, 10),
                   ParseDecimal(ReplaceComma(Trim(SubSeq(s, 11, Len(s))))), is_intermediate)

\* parse_balance: [ok, v], v a Balance
parse_balance(raw, size, is_intermediate) == ParseTrimmedBalance(Trim(raw), size, is_intermediate)

\* the position behind the run of digits that starts behind position i
RECURSIVE SkipDigits(_, _)
SkipDigits(s, i) == IF i < Len(s) /\ IsDigit(s[i + 1]) THEN SkipDigits(s, i + 1) ELSE i

\* str::split_once("//"): the position of the first "//", 0 for None
FindSlashes(t) ==
    LET hits == {k \in 1..(Len(t) - 1) : t[k] = "/" /\ t[k + 1] = "/"}
    IN IF hits = {} THEN 0 ELSE CHOOSE k \in hits : \A j \in hits : k <= j

StatementLine(vd, ed, dc, fc, amount, code, t) ==
    [value_date |-> vd, entry_date |-> ed, ext_debit_credit_indicator |-> dc,
     funds_code |-> fc, amount |-> amount, transaction_type_ident_code |-> code,
     customer_ref |-> t.customer_ref, bank_ref |-> t.bank_ref,
     supplementary_details |-> t.supp, information_to_account_owner |-> None]

\* A text is the sequence of its bytes, str::len and the ranges of a slice
\* count bytes.  Every piece is the one byte of an ASCII character, but for
\* LeadByte and NextByte, the two bytes of one character such as U+00FC.
LeadByte == "C3"
NextByte == "BC"

\* str::is_char_boundary at the byte offset k
IsCharBoundary(s, k) == k >= Len(s) \/ s[k + 1] # NextByte

\* the panic of a slice that ends inside a character
ParsePanic == [ok |-> FALSE, panic |-> TRUE]
Panicked(r) == ~r.ok /\ "panic" \in DOMAIN r

\* the references of field 61 that keep the first 17 bytes of the bank
\* reference
SplitTailAtOffByOne(tail, p) ==
    IF p # 0
    THEN IF Len(tail) - (p + 1) > 16
         THEN [customer_ref |-> SubSeq(tail, 1, p - 1),
               bank_ref |-> Opt(SubSeq(tail, p + 2, p + 18)),
               supp |-> Opt(SubSeq(tail, p + 19, Len(tail))),
               panic |-> ~IsCharBoundary(tail, p + 18)]
         ELSE [customer_ref |-> SubSeq(tail, 1, p - 1),
               bank_ref |-> Opt(SubSeq(tail, p + 2, Len(tail))), supp |-> None,
               panic |-> FALSE]
    ELSE IF Len(tail) > 16
         THEN [customer_ref |-> SubSeq(tail, 1, 16), bank_ref |-> None,
               supp |-> Opt(SubSeq(tail, 17, Len(tail))),
               panic |-> ~IsCharBoundary(tail, 16)]
         ELSE [customer_ref |-> tail, bank_ref |-> None, supp |-> None, panic |-> FALSE]

\* the references of field 61: the tail split at position p of its "//";
\* right[..16] and tail[..16] panic inside a character
SplitTailAt(tail, p) ==
    IF p # 0
    THEN IF Len(tail) - (p + 1) > 16
         THEN [customer_ref |-> SubSeq(tail, 1, p - 1),
               bank_ref |-> Opt(SubSeq(tail, p + 2, p + 17)),
               supp |-> Opt(SubSeq(tail, p + 18, Len(tail))),
               panic |-> ~IsCharBoundary(tail, p + 17)]
         ELSE [customer_ref |-> SubSeq(tail, 1, p - 1),
               bank_ref |-> Opt(SubSeq(tail, p + 2, Len(tail))), supp |-> None,
               panic |-> FALSE]
    ELSE IF Len(tail) > 16
         THEN [customer_ref |-> SubSeq(tail, 1, 16), bank_ref |-> None,
               supp |-> Opt(SubSeq(tail, 17, Len(tail))),
               panic |-> ~IsCharBoundary(tail, 16)]
         ELSE [customer_ref |-> tail, bank_ref |-> None, supp |-> None, panic |-> FALSE]

SplitTail(tail) == SplitTailAt(tail, FindSlashes(tail))

\* parse_61, the transaction type and the references behind the amount that
\* ends at position i
Parse61Tail(value_date, entry_date, ext_dc, funds_code, amount, code3, t) ==
    IF t.panic THEN ParsePanic
    ELSE [ok |-> TRUE,
          v |-> StatementLine(value_date, entry_date, ext_dc, funds_code, amount, code3, t)]

Parse61Type(s, value_date, entry_date, ext_dc, funds_code, amount, i) ==
    IF ~amount.ok THEN ParseErr
    ELSE IF Len(s) < i + 4 THEN ParseErr
    ELSE IF ~IsCharBoundary(s, i + 1) THEN ParsePanic
    ELSE IF s[i + 1] # "N" THEN ParseErr
    ELSE IF ~IsCharBoundary(s, i + 4) THEN ParsePanic
    ELSE Parse61Tail(value_date, entry_date, ext_dc, funds_code, amount.v,
                     SubSeq(s, i + 2, i + 4), SplitTail(SubSeq(s, i + 5, Len(s))))

\* parse_61, the amount from behind position i: its digits end at i4, its
\* fraction at i6
Parse61Fraction(s, value_date, entry_date, ext_dc, funds_code, i, i4, i6) ==
    IF i4 = i \/ i4 >= Len(s) \/ (s[i4 + 1] # "," /\ s[i4 + 1] # ".") THEN ParseErr
    ELSE IF i6 = i4 + 1 THEN ParseErr
    ELSE Parse61Type(s, value_date, entry_date, ext_dc, funds_code,
                     ParseDecimal(ReplaceComma(SubSeq(s, i + 1, i6))), i6)

Parse61Digits(s, value_date, entry_date, ext_dc, funds_code, i, i4) ==
    Parse61Fraction(s, value_date, entry_date, ext_dc, funds_code, i, i4, SkipDigits(s, i4 + 1))

Parse61Amount(s, value_date, entry_date, ext_dc, funds_code, i) ==
    Parse61Digits(s, value_date, entry_date, ext_dc, funds_code, i, SkipDigits(s, i))

\* parse_61, the funds code behind position i
Parse61Funds(s, value_date, entry_date, ext_dc, i) ==
    IF ~ext_dc.ok THEN ParseErr
    ELSE Parse61Amount(s, value_date, entry_date, ext_dc.v,
            IF Len(s) > i /\ IsAlpha(s[i + 1]) /\ Len(s) > i + 1 /\ IsDigit(s[i + 2])
            THEN Opt(<<s[i + 1]>>) ELSE None,
            IF Len(s) > i /\ IsAlpha(s[i + 1]) /\ Len(s) > i + 1 /\ IsDigit(s[i + 2])
            THEN i + 1 ELSE i)

\* parse_61, the D/C or RD/RC mark behind position i
Parse61Mark(s, value_date, entry_date, i) ==
    IF Len(s) < i + 2 THEN ParseErr
    ELSE IF ~IsCharBoundary(s, i + 2) THEN ParsePanic
    ELSE IF SubSeq(s, i + 1, i + 2) \notin {<<"R", "D">>, <<"R", "C">>}
            /\ ~IsCharBoundary(s, i + 1)
    THEN ParsePanic
    ELSE Parse61Funds(s, value_date, entry_date,
            IF SubSeq(s, i + 1, i + 2) = <<"R", "D">> THEN [ok |-> TRUE, v |-> "ReverseCredit"]
            ELSE IF SubSeq(s, i + 1, i + 2) = <<"R", "C">> THEN [ok |-> TRUE, v |-> "ReverseDebit"]
            ELSE DcFromStr(SubSeq(s, i + 1, i + 1)),
            IF SubSeq(s, i + 1, i + 2) \in {<<"R", "D">>, <<"R", "C">>} THEN i + 2 ELSE i + 1)

\* the entry date of the year of the value date, None when it is no date
EntryDate(ed) == IF ed.ok THEN Opt(ed.v) ELSE None

\* parse_61, the optional entry date MMDD behind the value date
Parse61Entry(s, value_date) ==
    IF ~value_date.ok THEN ParseErr
    ELSE IF Len(s) >= 10 /\ ~IsCharBoundary(s, 10) THEN ParsePanic
    ELSE Parse61Mark(s, value_date.v,
            IF Len(s) >= 10 /\ AllDigits(SubSeq(s, 7, 10))
            THEN EntryDate(MakeDate(value_date.v.y, Num(SubSeq(s, 7, 8)), Num(SubSeq(s, 9, 10))))
            ELSE None,
            IF Len(s) >= 10 /\ AllDigits(SubSeq(s, 7, 10)) THEN 10 ELSE 6)

NotNewline(c) == c # "\n"

Parse61Trimmed(s) ==
    IF Len(s) < 6 THEN ParseErr
    ELSE IF ~IsCharBoundary(s, 6) THEN ParsePanic
    ELSE Parse61Entry(s, ParseYmd2(SubSeq(s, 1, 6)))

\* parse_61: [ok, v], v a StatementLine
parse_61(raw) == Parse61Trimmed(Trim(SelectSeq(raw, NotNewline)))

Message ==
    [transaction_ref_no |-> <<>>, ref_to_related_msg |-> None, account_id |-> <<>>,
     statement_no |-> <<>>, sequence_no |-> None, opening_balance |-> DefaultBalance,
     statement_lines |-> <<>>, closing_balance |-> DefaultBalance,
     closing_available_balance |-> None, forward_available_balance |-> None,
     information_to_account_owner |-> None]

Field940(tag, value) == [tag |-> tag, value |-> value]

\* str::split_once('/'): the position of the first '/', 0 for None
FindSlash(t) ==
    LET hits == {k \in 1..Len(t) : t[k] = "/"}
    IN IF hits = {} THEN 0 ELSE CHOOSE k \in hits : \A j \in hits : k <= j

\* the locals of parse_block4; err is "" until an Err is returned
Block4Start == [err |-> "", messages |-> <<>>, cur |-> None]

\* value.split_once('/') at position p of the '/', for field 28C
StatementNo(m, value, p) ==
    IF p # 0
    THEN [m EXCEPT !.statement_no = SubSeq(value, 1, p - 1),
                   !.sequence_no = Opt(SubSeq(value, p + 1, Len(value)))]
    ELSE [m EXCEPT !.statement_no = value, !.sequence_no = None]

\* the arm of the match that gives every narrative to the message
Block4ArmMessageNarrative(m, tag, value, b, l) ==
    IF tag = "21" THEN [m EXCEPT !.ref_to_related_msg = Opt(value)]
    ELSE IF tag = "25" THEN [m EXCEPT !.account_id = value]
    ELSE IF tag \in {"28", "28C"} THEN StatementNo(m, value, FindSlash(value))
    ELSE IF tag \in {"60F", "60M"} THEN [m EXCEPT !.opening_balance = b.v]
    ELSE IF tag = "61" THEN [m EXCEPT !.statement_lines = Append(@, l.v)]
    ELSE IF tag = "86" THEN [m EXCEPT !.information_to_account_owner = Opt(value)]
    ELSE IF tag \in {"62F", "62M"} THEN [m EXCEPT !.closing_balance = b.v]
    ELSE IF tag = "64" THEN [m EXCEPT !.closing_available_balance = Opt(b.v.balance)]
    ELSE [m EXCEPT !.forward_available_balance = Opt(b.v.balance)]

\* the arm of the match of parse_block4 for a field of the current message m:
\* m after it; b is parse_balance and l parse_61 of the value
Block4Arm(m, tag, value, b, l) ==
    IF tag = "21" THEN [m EXCEPT !.ref_to_related_msg = Opt(value)]
    ELSE IF tag = "25" THEN [m EXCEPT !.account_id = value]
    ELSE IF tag \in {"28", "28C"} THEN StatementNo(m, value, FindSlash(value))
    ELSE IF tag \in {"60F", "60M"} THEN [m EXCEPT !.opening_balance = b.v]
    ELSE IF tag = "61" THEN [m EXCEPT !.statement_lines = Append(@, l.v)]
    ELSE IF tag = "86"
    THEN IF m.statement_lines # <<>>
         THEN [m EXCEPT !.statement_lines[Len(m.statement_lines)]
                           .information_to_account_owner = Opt(value)]
         ELSE [m EXCEPT !.information_to_account_owner = Opt(value)]
    ELSE IF tag \in {"62F", "62M"} THEN [m EXCEPT !.closing_balance = b.v]
    ELSE IF tag = "64" THEN [m EXCEPT !.closing_available_balance = Opt(b.v.balance)]
    ELSE [m EXCEPT !.forward_available_balance = Opt(b.v.balance)]

\* the Err of a field when the current message is looked for before the tag
\* is matched
Block4ErrMessageFirst(st, tag, b, l) ==
    IF tag = "20" THEN ""
    ELSE IF ~st.cur.some THEN "DataFormatError"
    ELSE IF tag \notin {"21", "25", "28", "28C", "60F", "60M", "61", "86", "62F", "62M",
                        "64", "65"}
    THEN "UnsupportedTagError"
    ELSE IF tag \in {"60F", "60M", "62F", "62M", "64", "65"} /\ ~b.ok THEN "UnknownValueError"
    ELSE IF tag = "61" /\ ~l.ok THEN "UnknownValueError"
    ELSE ""

\* the Err the arm of a field returns, "" for none
Block4Err(st, tag, b, l) ==
    IF tag = "20" THEN ""
    ELSE IF tag \notin {"21", "25", "28", "28C", "60F", "60M", "61", "86", "62F", "62M",
                        "64", "65"}
    THEN "UnsupportedTagError"
    ELSE IF ~st.cur.some THEN "DataFormatError"
    ELSE IF tag \in {"60F", "60M", "62F", "62M", "64", "65"} /\ ~b.ok THEN "UnknownValueError"
    ELSE IF tag = "61" /\ Panicked(l) THEN "panic"
    ELSE IF tag = "61" /\ ~l.ok THEN "UnknownValueError"
    ELSE ""

Block4Step(st, tag, value, err, b, l) ==
    IF err # "" THEN [st EXCEPT !.err = err]
    ELSE IF tag = "20"
    THEN [st EXCEPT !.messages = IF st.cur.some THEN Append(@, st.cur.v) ELSE @,
                    !.cur = Opt([Message EXCEPT !.transaction_ref_no = value])]
    ELSE [st EXCEPT !.cur = Opt(Block4Arm(st.cur.v, tag, value, b, l))]

Block4Parsed(st, tag, value, b, l) == Block4Step(st, tag, value, Block4Err(st, tag, b, l), b, l)

\* the body of the loop of parse_block4 for one field
Block4Field(st, f) ==
    Block4Parsed(st, f.tag, f.value,
                 parse_balance(f.value, IF f.tag \in {"64", "65"} THEN 13 ELSE 11,
                               f.tag \in {"60M", "62M"}),
                 parse_61(f.value))

RECURSIVE Block4From(_, _, _)
Block4From(fields, k, st) ==
    IF k > Len(fields) \/ st.err # "" THEN st
    ELSE Block4From(fields, k + 1, Block4Field(st, fields[k]))

\* the return value of parse_block4: [err, messages]
Block4Result(st) ==
    IF st.err # "" THEN [err |-> st.err, messages |-> <<>>]
    ELSE [err |-> "",
          messages |-> IF st.cur.some THEN Append(st.messages, st.cur.v) ELSE st.messages]

parse_block4(fields) == Block4Result(Block4From(fields, 1, Block4Start))

\* write_balance: the fields written
write_balance(tagF, tagM, balance) ==
    IF DecIsZero(balance.balance.amount) THEN <<>>
    ELSE <<Field940(IF balance.is_intermediate THEN tagM ELSE tagF,
                    DcToString(balance.balance.debit_credit_indicator)
                       \o FormatYmd2(balance.balance.date)
                       \o balance.balance.iso_currency_code
                       \o DecToString(balance.balance.amount))>>

\* write_statement: the fields written
write_statement(l) ==
    <<Field940("61",
               FormatYmd2(l.value_date)
                  \o (IF l.entry_date.some THEN FormatMd(l.entry_date.v) ELSE <<>>)
                  \o DcToString(l.ext_debit_credit_indicator)
                  \o (IF l.funds_code.some THEN l.funds_code.v ELSE <<>>)
                  \o DecToString(l.amount)
                  \o <<"N">> \o l.transaction_type_ident_code
                  \o l.customer_ref
                  \o (IF l.bank_ref.some THEN <<"/", "/">> \o l.bank_ref.v ELSE <<>>)
                  \o (IF l.supplementary_details.some THEN l.supplementary_details.v ELSE <<>>))>>
       \o (IF l.information_to_account_owner.some
           THEN <<Field940("86", l.information_to_account_owner.v)>> ELSE <<>>)

\* write_available_balance: the field written
write_available_balance(tag, balance) ==
    <<Field940(tag,
               DcToString(balance.debit_credit_indicator) \o FormatYmd4(balance.date)
                  \o balance.iso_currency_code \o DecToString(balance.amount))>>

RECURSIVE WriteLines(_)
WriteLines(ls) == IF ls = <<>> THEN <<>> ELSE write_statement(ls[1]) \o WriteLines(Tail(ls))

\* the fields write_to writes between "{4:" and "-}" for one message
WriteMessage(m) ==
    (IF m.transaction_ref_no # <<>> THEN <<Field940("20", m.transaction_ref_no)>> ELSE <<>>)
    \o (IF m.ref_to_related_msg.some THEN <<Field940("21", m.ref_to_related_msg.v)>> ELSE <<>>)
    \o (IF m.account_id # <<>> THEN <<Field940("25", m.account_id)>> ELSE <<>>)
    \o (IF m.statement_no # <<>>
        THEN <<Field940("28C", m.statement_no
                  \o (IF m.sequence_no.some THEN <<"/">> \o m.sequence_no.v ELSE <<>>))>>
        ELSE <<>>)
    \o write_balance("60F", "60M", m.opening_balance)
    \o WriteLines(m.statement_lines)
    \o write_balance("62F", "62M", m.closing_balance)
    \o (IF m.closing_available_balance.some
        THEN write_available_balance("64", m.closing_available_balance.v) ELSE <<>>)
    \o (IF m.forward_available_balance.some
        THEN write_available_balance("65", m.forward_available_balance.v) ELSE <<>>)
    \o (IF m.information_to_account_owner.some
        THEN <<Field940("86", m.information_to_account_owner.v)>> ELSE <<>>)

\* write_to: one block per message that wrote a field
Block(fields) == IF fields # <<>> THEN <<fields>> ELSE <<>>

RECURSIVE Mt940WriteTo(_)
Mt940WriteTo(msgs) ==
    IF msgs = <<>> THEN <<>> ELSE Block(WriteMessage(msgs[1])) \o Mt940WriteTo(Tail(msgs))

\* from_read on the blocks written: parse_block4 of every block, the
\* messages collected, the first Err returned
RECURSIVE ParseBlocks(_, _)
ParsedBlock(r, blocks, acc) ==
    IF r.err # "" THEN r ELSE ParseBlocks(Tail(blocks), acc \o r.messages)

ParseBlocks(blocks, acc) ==
    IF blocks = <<>> THEN [err |-> "", messages |-> acc]
    ELSE ParsedBlock(parse_block4(blocks[1]), blocks, acc)

\* the fields of the inputs
Mt940Fields ==
    { Field940("20", <<"T", "1">>),
      Field940("21", <<"R", "1">>),
      Field940("25", <<"A", "C">>),
      Field940("28C", <<"1", "/", "2">>),
      Field940("60F", <<"C", "2", "4", "0", "1", "0", "2", "E", "U", "R", "1", "2", ",", "5">>),
      Field940("60M", <<"D", "2", "4", "0", "1", "0", "2", "E", "U", "R", "0", ",", "0", "0">>),
      Field940("61", <<"2", "4", "0", "1", "0", "2", "0", "1", "0", "3", "C", "F", "1", "2", ",", "5", "N", "T", "R", "F", "R", "E", "F", "/", "/", "B", "K">>),
      Field940("61", <<"2", "4", "0", "1", "0", "2", "R", "D", "3", ",", "0", "0", "N", "M", "S", "C">>),
      Field940("86", <<"X">>),
      Field940("62F", <<"C", "2", "4", "0", "1", "0", "3", "E", "U", "R", "2", "0", ",", "5">>),
      Field940("64", <<"C", "2", "4", "0", "1", "0", "4", "E", "U", "R", "5", ",", "0", "0">>),
      Field940("65", <<"D", "2", "4", "0", "1", "0", "5", "E", "U", "R", "6", ",", "0", "0">>),
      Field940("99", <<"X">>) }

Mt940Inputs == UNION { [1..n -> Mt940Fields] : n \in 0..MaxFields }

NoParse == [err |-> "none", messages |-> <<>>]

MtIdle ==
    /\ mtIn = <<>> /\ mtParsed = NoParse /\ mtOut = <<>> /\ mtParsed2 = NoParse
    /\ mtpc = "idle"

MtInput ==
    /\ mtIn \in Mt940Inputs
    /\ mtParsed = NoParse /\ mtOut = <<>> /\ mtParsed2 = NoParse
    /\ mtpc = "read"

\* parse_block4(x)
MtParse ==
    /\ mtpc = "read"
    /\ mtParsed' = parse_block4(mtIn)
    /\ mtpc' = IF mtParsed'.err = "" THEN "write" ELSE "failed"
    /\ UNCHANGED <<mtIn, mtOut, mtParsed2>>
    /\ UNCHANGED notMt

\* write_to
MtWrite ==
    /\ mtpc = "write"
    /\ mtOut' = Mt940WriteTo(mtParsed.messages)
    /\ mtpc' = "reread"
    /\ UNCHANGED <<mtIn, mtParsed, mtParsed2>>
    /\ UNCHANGED notMt

\* the output parsed again
MtReparse ==
    /\ mtpc = "reread"
    /\ mtParsed2' = ParseBlocks(mtOut, <<>>)
    /\ mtpc' = "done"
    /\ UNCHANGED <<mtIn, mtParsed, mtOut>>
    /\ UNCHANGED notMt

-----------------------------------------------------------------------------
(* impl From<Camt053Format> for MT940Format, mt940_format.rs:653-824 *)

DefaultStatementLine ==
    StatementLine(DefaultDate, None, "Debit", None, DecZero, <<>>,
                  [customer_ref |-> <<>>, bank_ref |-> None, supp |-> None])

\* Option<StatementLine>: None keeps a placeholder value
NoStatement == [some |-> FALSE, v |-> DefaultStatementLine]

\* the locals of from() before the loop
ConvLocals ==
    [result |-> <<>>, message |-> Message, base_orgn_msg_id |-> <<>>,
     balance |-> DefaultBalance, balance_name |-> <<>>, statement |-> NoStatement]

\* get_avalbal(name, message) followed by merge(balance) on what it returns
GetAvalbalMerge(name, message, balance) ==
    IF name = <<"C", "L", "B", "D">>
    THEN [message EXCEPT !.closing_balance.balance = AvailableMerge(@, balance)]
    ELSE IF name = <<"C", "L", "A", "V">>
    THEN [message EXCEPT !.closing_available_balance =
             Opt(AvailableMerge(DefaultAvailableBalance, balance))]
    ELSE IF name = <<"F", "W", "A", "V">>
    THEN [message EXCEPT !.forward_available_balance =
             Opt(AvailableMerge(DefaultAvailableBalance, balance))]
    ELSE [message EXCEPT !.opening_balance.balance = AvailableMerge(@, balance)]

\* if !balance_name.is_empty() && let Some(a) = get_avalbal(..) { a.merge(..) }
FlushBalance(l) ==
    IF l.balance_name # <<>>
    THEN [l EXCEPT !.message = GetAvalbalMerge(l.balance_name, l.message, l.balance.balance)]
    ELSE l

\* message.ref_to_related_msg = Some(base_orgn_msg_id.clone()) when not empty
WithRelated(message, base) ==
    IF base # <<>> THEN [message EXCEPT !.ref_to_related_msg = Opt(base)] ELSE message

\* match tag.text() { "DBIT" => Debit, "CRDT" => Credit, _ => Debit }
IndOf(text) == IF text = <<"C", "R", "D", "T">> THEN "Credit" ELSE "Debit"

\* the arms of the match that write the pending statement line
ConvNtryField(sub, text, attrs, st) ==
    IF sub = PathStr(<<"Stmt", "Ntry", "ValDt", "Dt">>)
    THEN LET d == ParseDateYmdDash(text)
         IN IF d.ok THEN [st EXCEPT !.value_date = d.v] ELSE st
    ELSE IF sub = PathStr(<<"Stmt", "Ntry", "BookgDt", "Dt">>)
    THEN LET d == ParseDateYmdDash(text)
         IN IF d.ok THEN [st EXCEPT !.entry_date = Opt(d.v)] ELSE st
    ELSE IF sub = PathStr(<<"Stmt", "Ntry", "CdtDbtInd">>)
    THEN [st EXCEPT !.ext_debit_credit_indicator = IndOf(text)]
    ELSE IF sub = PathStr(<<"Stmt", "Ntry", "Amt">>)
    THEN LET amount == ParseDecimal(ReplaceComma(text))
         IN IF amount.ok
            THEN [st EXCEPT !.amount = amount.v, !.funds_code = FindAttr(attrs, "Ccy")]
            ELSE st
    ELSE IF sub = PathStr(<<"Stmt", "Ntry", "BkTxCd", "Prtry", "Issr">>)
    THEN [st EXCEPT !.transaction_type_ident_code = text]
    ELSE IF sub \in { PathStr(<<"Stmt", "Ntry", "NtryDtls", "TxDtls", "Refs", r>>) :
                        r \in {"EndToEndId", "MndtId", "InstrId", "PmtInfId"} }
    THEN [st EXCEPT !.customer_ref = text]
    ELSE IF sub \in { PathStr(<<"Stmt", "Ntry", "NtryDtls", "TxDtls", "Refs", r>>) :
                        r \in {"AcctSvcrRef", "TxId"} }
    THEN [st EXCEPT !.bank_ref = Opt(text)]
    ELSE IF sub = PathStr(<<"Stmt", "Ntry", "AddtlTxInf">>)
    THEN [st EXCEPT !.supplementary_details = Opt(text)]
    ELSE IF sub = PathStr(<<"Stmt", "Ntry", "NtryDtls", "TxDtls", "AddtlTxInf">>)
    THEN IF st.information_to_account_owner.some
         THEN [st EXCEPT !.information_to_account_owner =
                  Opt(st.information_to_account_owner.v \o <<" ">> \o text)]
         ELSE [st EXCEPT !.information_to_account_owner = Opt(text)]
    ELSE st

\* the arms of the match that write the balance being collected
ConvBalField(sub, text, attrs, b) ==
    IF sub = PathStr(<<"Stmt", "Bal", "CdtDbtInd">>)
    THEN [b EXCEPT !.debit_credit_indicator = IndOf(text)]
    ELSE IF sub = PathStr(<<"Stmt", "Bal", "Dt", "Dt">>)
    THEN LET d == ParseDateYmdDash(text)
         IN IF d.ok THEN [b EXCEPT !.date = d.v] ELSE b
    ELSE IF sub = PathStr(<<"Stmt", "Bal", "Amt">>)
    THEN LET amount == ParseDecimal(ReplaceComma(text))
             curr == FindAttr(attrs, "Ccy")
             b1 == IF amount.ok THEN [b EXCEPT !.amount = amount.v] ELSE b
         IN IF curr.some THEN [b1 EXCEPT !.iso_currency_code = curr.v] ELSE b1
    ELSE b

\* the arms of the match that write the message
ConvMessageField(sub, text, message) ==
    IF sub = PathStr(<<"Stmt", "Id">>)
    THEN [message EXCEPT !.transaction_ref_no = text]
    ELSE IF sub = PathStr(<<"Stmt", "Acct", "Id", "IBAN">>)
    THEN [message EXCEPT !.account_id = text]
    ELSE IF sub = PathStr(<<"Stmt", "ElctrncSeqNb">>)
    THEN [message EXCEPT !.statement_no = text]
    ELSE IF sub = PathStr(<<"Stmt", "LglSeqNb">>)
    THEN IF text # <<>> THEN [message EXCEPT !.sequence_no = Opt(text)] ELSE message
    ELSE IF sub = PathStr(<<"Stmt", "AddtlStmtInf">>)
    THEN IF text # <<>>
         THEN [message EXCEPT !.information_to_account_owner = Opt(text)]
         ELSE message
    ELSE message

\* the body of the for loop for one TagView: the locals after it
ConvBody(view, l) ==
    LET s == FindStmt(view.path)
        sub == SubSeq(view.path, s, Len(view.path))
        text == TextOf(view.node)
        attrs == arena[view.node].attrs
    IN IF s = 0
       THEN IF view.path = PathStr(<<"BkToCstmrStmt", "GrpHdr", "OrgnlBizQry", "MsgId">>)
            THEN [l EXCEPT !.base_orgn_msg_id = text]
            ELSE l
       ELSE IF sub = PathStr(<<"Stmt">>)
       THEN IF l.message.transaction_ref_no # <<>>
            THEN [l EXCEPT !.result = Append(@, WithRelated(l.message, l.base_orgn_msg_id)),
                           !.message = Message]
            ELSE [l EXCEPT !.message = WithRelated(@, l.base_orgn_msg_id)]
       ELSE IF sub = PathStr(<<"Stmt", "Bal">>)
       THEN [FlushBalance(l) EXCEPT !.balance = DefaultBalance, !.balance_name = <<>>]
       ELSE IF sub = PathStr(<<"Stmt", "Bal", "Tp", "CdOrPrtry", "Cd">>)
       THEN [l EXCEPT !.balance_name = text]
       ELSE IF sub = PathStr(<<"Stmt", "Ntry">>)
       THEN IF l.statement.some
            THEN [l EXCEPT !.message.statement_lines = Append(@, l.statement.v),
                           !.statement = Opt(DefaultStatementLine)]
            ELSE [l EXCEPT !.statement = Opt(DefaultStatementLine)]
       ELSE [l EXCEPT !.message = ConvMessageField(sub, text, @),
                      !.balance.balance = ConvBalField(sub, text, attrs, @),
                      !.statement = IF @.some
                                    THEN Opt(ConvNtryField(sub, text, attrs, @.v))
                                    ELSE @]

\* after the loop: the pending balance is merged, the pending statement line
\* pushed, and the message pushed unless it is Message::default()
ConvPushLine(l) ==
    IF l.statement.some
    THEN [l EXCEPT !.message.statement_lines = Append(@, l.statement.v),
                   !.statement = Opt(DefaultStatementLine)]
    ELSE l

ConvPushMessage(l) ==
    IF l.message # Message
    THEN [l EXCEPT !.result = Append(@, l.message), !.message = Message]
    ELSE l

ConvEnd(l) == ConvPushMessage(ConvPushLine(FlushBalance(l)))

-----------------------------------------------------------------------------
(* The documents the conversion is run on: BkToCstmrStmt with an optional  *)
(* GrpHdr/OrgnlBizQry/MsgId and Stmt subtrees that carry an optional Id,   *)
(* Bal blocks and entries.                                                   *)

OPBD == <<"O", "P", "B", "D">>
CLBD == <<"C", "L", "B", "D">>
CLAV == <<"C", "L", "A", "V">>

\* the Id text of the k-th Stmt
ConvId(k) == <<"S">> \o NumDigits(k)

ConvBals == { <<>>, <<OPBD>>, <<CLBD>>, <<CLAV>>, <<OPBD, CLBD>> }

ConvEntry ==
    [amt |-> Field(<<"1", "2", ",", "5">>, << <<"Ccy", <<"E", "U", "R">> >> >>),
     ind |-> Field(<<"C", "R", "D", "T">>, <<>>),
     dt |-> Field(<<"2", "0", "2", "6", "-", "0", "1", "-", "2", "0">>, <<>>)]

ConvStmts == [hasId : BOOLEAN, bals : ConvBals, ntry : {<<>>, <<ConvEntry>>}]

Documents ==
    [hdr : BOOLEAN, stmts : UNION { [1..n -> ConvStmts] : n \in 0..MaxStmts }]

\* a Bal block with the type code cd
AddBal(a, stmt, cd) ==
    LET a1 == AddTag(a, stmt, "Bal", NoText)
        bal == Len(a1)
        a2 == AddTag(a1, bal, "Amt",
                     Field(<<"5", ",", "0", "0">>, << <<"Ccy", <<"E", "U", "R">> >> >>))
        a3 == AddTag(a2, bal, "CdtDbtInd", Field(<<"C", "R", "D", "T">>, <<>>))
        a4 == AddTag(a3, bal, "Dt", NoText)
        a5 == AddTag(a4, Len(a4), "Dt",
                     Field(<<"2", "0", "2", "4", "-", "0", "1", "-", "0", "2">>, <<>>))
        a6 == AddTag(a5, bal, "Tp", NoText)
        a7 == AddTag(a6, Len(a6), "CdOrPrtry", NoText)
    IN AddTag(a7, Len(a7), "Cd", Field(cd, <<>>))

RECURSIVE AddBals(_, _, _, _)
AddBals(a, stmt, bs, k) ==
    IF k > Len(bs) THEN a ELSE AddBals(AddBal(a, stmt, bs[k]), stmt, bs, k + 1)

\* the k-th Stmt subtree under the root (tag 2)
AddStmt(a, st, k) ==
    LET a1 == AddTag(a, 2, "Stmt", NoText)
        stmt == Len(a1)
        a2 == IF st.hasId THEN AddTag(a1, stmt, "Id", Field(ConvId(k), <<>>)) ELSE a1
    IN AddEntries(AddBals(a2, stmt, st.bals, 1), stmt, st.ntry, 1)

RECURSIVE AddStmts(_, _, _)
AddStmts(a, sts, k) ==
    IF k > Len(sts) THEN a ELSE AddStmts(AddStmt(a, sts[k], k), sts, k + 1)

AddHeader(a) ==
    LET a1 == AddTag(a, 2, "GrpHdr", NoText)
        a2 == AddTag(a1, Len(a1), "OrgnlBizQry", NoText)
    IN AddTag(a2, Len(a2), "MsgId", Field(<<"Q">>, <<>>))

\* the tree from_read builds: tag 1 the virtual root, 2 BkToCstmrStmt
BuildDocument(doc) ==
    LET a1 == AddTag(<<VirtualRoot>>, 1, "BkToCstmrStmt", NoText)
    IN AddStmts(IF doc.hdr THEN AddHeader(a1) ELSE a1, doc.stmts, 1)

NoDocument == [hdr |-> FALSE, stmts |-> <<>>]

ConvIdle ==
    /\ docIn = NoDocument /\ conv = ConvLocals /\ convpc = "idle"

\* the state when from() is entered, value.get_iter() taken
ConvInput ==
    /\ docIn \in Documents
    /\ arena = BuildDocument(docIn)
    /\ previous_tag = 1 /\ rstate = "ok" /\ nev = 0 /\ event = NoEvent
    /\ root = 2
    /\ it = IterNew(arena, 2)
    /\ out = <<>> /\ ended = 0
    /\ conv = ConvLocals
    /\ convpc = "iter"

\* one turn of the for loop
ConvItem ==
    /\ convpc = "iter"
    /\ LET r == IterStep(it)
       IN /\ r.some
          /\ it' = r.it
          /\ conv' = ConvBody(r.view, conv)
    /\ UNCHANGED <<arena, previous_tag, rstate, nev, event, root, out, ended, docIn, convpc>>
    /\ UNCHANGED notConv

\* the iterator is exhausted: what is pending is flushed and the result returned
ConvReturn ==
    /\ convpc = "iter"
    /\ LET r == IterStep(it)
       IN /\ ~r.some
          /\ it' = r.it
    /\ conv' = ConvEnd(conv)
    /\ convpc' = "done"
    /\ UNCHANGED <<arena, previous_tag, rstate, nev, event, root, out, ended, docIn>>
    /\ UNCHANGED notConv

-----------------------------------------------------------------------------
(* The documents the collection of the balances is run on: one Stmt with up *)
(* to MaxBals Bal blocks, or two Stmt, the first with up to one block.  A   *)
(* block has one of five type codes, Tp in front of or behind its other     *)
(* children, and one of two sets of values.                                 *)

MaxBals == 2

FWAV == <<"F", "W", "A", "V">>
OtherCode == <<"P", "R", "C", "D">>

\* the texts of a Bal block and the AvailableBalance they stand for
BalValues ==
    { [amt |-> <<"1", "0", "0", ".", "0", "0">>, ccy |-> <<"E", "U", "R">>, ind |-> <<"C", "R", "D", "T">>, dt |-> <<"2", "0", "2", "4", "-", "0", "1", "-", "0", "1">>,
       is |-> AvailableBalance("Credit", Date(2024, 1, 1), <<"E", "U", "R">>, Dec(10000, 2))],
      [amt |-> <<"9", "8", ",", "7", "7">>, ccy |-> <<"U", "S", "D">>, ind |-> <<"D", "B", "I", "T">>, dt |-> <<"2", "0", "2", "4", "-", "0", "1", "-", "0", "2">>,
       is |-> AvailableBalance("Debit", Date(2024, 1, 2), <<"U", "S", "D">>, Dec(9877, 2))] }

BalBlocks == [cd : {OPBD, CLBD, CLAV, FWAV, OtherCode}, tpFirst : BOOLEAN, v : BalValues]

BalDocuments ==
    { <<bs>> : bs \in UNION { [1..n -> BalBlocks] : n \in 0..MaxBals } }
    \cup
    { <<b1, b2>> : b1 \in UNION { [1..n -> BalBlocks] : n \in 0..1 },
                   b2 \in { <<>>, <<[cd |-> OPBD, tpFirst |-> TRUE,
                                     v |-> CHOOSE x \in BalValues : x.ind = <<"D", "B", "I", "T">>]>> } }

AddTp(a, bal, cd) ==
    LET a1 == AddTag(a, bal, "Tp", NoText)
        a2 == AddTag(a1, Len(a1), "CdOrPrtry", NoText)
    IN AddTag(a2, Len(a2), "Cd", Field(cd, <<>>))

AddBalValues(a, bal, v) ==
    LET a1 == AddTag(a, bal, "Amt", Field(v.amt, << <<"Ccy", v.ccy>> >>))
        a2 == AddTag(a1, bal, "CdtDbtInd", Field(v.ind, <<>>))
        a3 == AddTag(a2, bal, "Dt", NoText)
    IN AddTag(a3, Len(a3), "Dt", Field(v.dt, <<>>))

\* the Bal block b under the Stmt
AddBalBlock(a, stmt, b) ==
    LET a1 == AddTag(a, stmt, "Bal", NoText)
    IN IF b.tpFirst
       THEN AddBalValues(AddTp(a1, Len(a1), b.cd), Len(a1), b.v)
       ELSE AddTp(AddBalValues(a1, Len(a1), b.v), Len(a1), b.cd)

RECURSIVE AddBalBlocks(_, _, _, _)
AddBalBlocks(a, stmt, bs, k) ==
    IF k > Len(bs) THEN a ELSE AddBalBlocks(AddBalBlock(a, stmt, bs[k]), stmt, bs, k + 1)

\* the k-th Stmt, with its Id, under the root (tag 2)
AddBalStmt(a, bs, k) ==
    LET a1 == AddTag(a, 2, "Stmt", NoText)
        a2 == AddTag(a1, Len(a1), "Id", Field(ConvId(k), <<>>))
    IN AddBalBlocks(a2, Len(a1), bs, 1)

RECURSIVE AddBalStmts(_, _, _)
AddBalStmts(a, doc, k) ==
    IF k > Len(doc) THEN a ELSE AddBalStmts(AddBalStmt(a, doc[k], k), doc, k + 1)

BuildBalDocument(doc) ==
    AddBalStmts(AddTag(<<VirtualRoot>>, 1, "BkToCstmrStmt", NoText), doc, 1)

\* the state when from() is entered, value.get_iter() taken
BalInput ==
    /\ docIn \in BalDocuments
    /\ arena = BuildBalDocument(docIn)
    /\ previous_tag = 1 /\ rstate = "ok" /\ nev = 0 /\ event = NoEvent
    /\ root = 2
    /\ it = IterNew(arena, 2)
    /\ out = <<>> /\ ended = 0
    /\ conv = ConvLocals
    /\ convpc = "iter"

-----------------------------------------------------------------------------
(* CSVFormat::collect_transactions, csv_format.rs:195-236.  The column      *)
(* names are single pieces: "DP" is `Дата проводки`, "SD" is `Сумма по       *)
(* дебету`, "SC" is `Сумма по кредиту`; the data cells are sequences of      *)
(* characters.                                                               *)

DebitColumn == <<"SD">>
CreditColumn == <<"SC">>

\* NaiveDate::parse_from_str(s, "%d.%m.%Y") on a text of two digits, '.',
\* two digits, '.', four digits; any other text of the model is an Err
ParseDateDmyDot(s) ==
    IF /\ Len(s) = 10
       /\ AllDigits(SubSeq(s, 1, 2)) /\ s[3] = "."
       /\ AllDigits(SubSeq(s, 4, 5)) /\ s[6] = "."
       /\ AllDigits(SubSeq(s, 7, 10))
    THEN MakeDate(Num(SubSeq(s, 7, 10)), Num(SubSeq(s, 4, 5)), Num(SubSeq(s, 1, 2)))
    ELSE ParseErr

\* the last position of name in columns, 0 when the HashMap has no such key
ColumnIndex(columns, name) ==
    LET hits == {k \in 1..Len(columns) : columns[k] = name}
    IN IF hits = {} THEN 0 ELSE CHOOSE k \in hits : \A j \in hits : k >= j

\* the HashMap index built from the columns
CsvIndex(columns) ==
    [date |-> ColumnIndex(columns, DateColumn),
     debit |-> ColumnIndex(columns, DebitColumn),
     credit |-> ColumnIndex(columns, CreditColumn)]

\* the amount of the cell, or the amount the transaction already has
CellAmount(cell, old) ==
    LET a == ParseDecimal(ReplaceComma(cell))
    IN IF a.ok THEN a.v ELSE old

CellDate(cell, old) ==
    LET d == ParseDateDmyDot(cell)
    IN IF d.ok THEN d.v ELSE old

\* the body of the loop over the table for one row: index[..] panics on a
\* key the map does not hold
CsvCollectRow(row, index) ==
    IF index.date = 0 \/ index.debit = 0
    THEN [panic |-> TRUE, t |-> DefaultTransaction]
    ELSE IF row[index.debit] = <<>>
    THEN IF index.credit = 0
         THEN [panic |-> TRUE, t |-> DefaultTransaction]
         ELSE [panic |-> FALSE,
               t |-> Transaction(CellAmount(row[index.credit], DecZero), <<>>,
                                 CellDate(row[index.date], DefaultDate), "Credit")]
    ELSE [panic |-> FALSE,
          t |-> Transaction(CellAmount(row[index.debit], DecZero), <<>>,
                            CellDate(row[index.date], DefaultDate), "Debit")]

\* the records collect_transactions is tried on: header rows with and without
\* the amount columns, a second header row, data rows with dates in two
\* notations and amounts with '.' and ','
DayDot == <<"2", "0", ".", "0", "1", ".", "2", "0", "2", "6">>
DayIso == <<"2", "0", "2", "6", "-", "0", "1", "-", "2", "1">>

CsvHeaderRows ==
    { <<DateColumn, DebitColumn, CreditColumn>>,
      <<DateColumn, DebitColumn>>,
      <<DateColumn, CreditColumn>>,
      <<<<"x">>, EmptyCell, EmptyCell>> }

CsvDataRows ==
    { <<DayDot, <<"1", "2", "3", ".", "4", "5">>, EmptyCell>>,
      <<DayIso, EmptyCell, <<"1", "0", ",", "0", "0">> >>,
      <<DayDot, <<"z", "9">>, EmptyCell>>,
      <<DayIso, <<"7", ".", "5">> >> }

CsvTables == UNION { [1..n -> CsvHeaderRows \cup CsvDataRows] : n \in 0..MaxRows }

CsvColIdle ==
    /\ tblIn = <<>> /\ tblFmt = NoCsv /\ tblTx = <<>> /\ tblpc = "idle"

CsvColInput ==
    /\ tblIn \in CsvTables
    /\ tblFmt = NoCsv /\ tblTx = <<>>
    /\ tblpc = "read"

\* CSVFormat::from_read
TblParse ==
    /\ tblpc = "read"
    /\ tblFmt' = CsvFromRecords(tblIn)
    /\ tblpc' = IF tblFmt'.status = "ok" THEN "rows" ELSE "failed"
    /\ UNCHANGED <<tblIn, tblTx>>
    /\ UNCHANGED notTbl

\* one turn of the loop over self.table
TblRow ==
    /\ tblpc = "rows"
    /\ Len(tblTx) < Len(tblFmt.table)
    /\ LET r == CsvCollectRow(tblFmt.table[Len(tblTx) + 1], CsvIndex(tblFmt.columns))
       IN IF r.panic
          THEN tblpc' = "panic" /\ tblTx' = tblTx
          ELSE tblpc' = "rows" /\ tblTx' = Append(tblTx, r.t)
    /\ UNCHANGED <<tblIn, tblFmt>>
    /\ UNCHANGED notTbl

\* the list is returned
TblReturn ==
    /\ tblpc = "rows"
    /\ Len(tblTx) = Len(tblFmt.table)
    /\ tblpc' = "done"
    /\ UNCHANGED <<tblIn, tblFmt, tblTx>>
    /\ UNCHANGED notTbl

-----------------------------------------------------------------------------
(* MT940Format::from_read, mt940_format.rs:446-501.  A line is the sequence  *)
(* of its pieces: a piece of text, a match of the start pattern `}[{ ]*4:`,   *)
(* a match of the end pattern `-[)}]|}`, or one field of the payload.         *)

TextPiece == [k |-> "txt", tag |-> "", value |-> <<>>]
StartPiece == [k |-> "start", tag |-> "", value |-> <<>>]
EndPiece == [k |-> "end", tag |-> "", value |-> <<>>]
FieldPiece(tag, value) == [k |-> "fld", tag |-> tag, value |-> value]

\* Regex::find on the line: the position of the first piece of kind k, 0 for
\* None
FindPiece(line, k) ==
    LET hits == {i \in 1..Len(line) : line[i].k = k}
    IN IF hits = {} THEN 0 ELSE CHOOSE i \in hits : \A j \in hits : i <= j

IsFieldPiece(p) == p.k = "fld"

\* the fields parse_fields finds in the accumulated payload
FieldsOf(accum) ==
    LET fs == SelectSeq(accum, IsFieldPiece)
    IN [i \in 1..Len(fs) |-> Field940(fs[i].tag, fs[i].value)]

\* the locals of from_read before the first line
FromReadStart ==
    [accum |-> <<>>, state |-> "Empty", transactions |-> <<>>, other_data |-> <<>>]

\* other_data.last_mut().push_str(text), or other_data.push(first) when
\* there is no last element
PushOther(other_data, text, first) ==
    IF other_data # <<>>
    THEN [other_data EXCEPT ![Len(other_data)] = @ \o text]
    ELSE <<first>>

\* the first part of the loop body: the line is added to accum or other_data
FromReadLine(l, line, s, e) ==
    IF s # 0
    THEN [l EXCEPT !.other_data = PushOther(@, line, SubSeq(line, 1, s - 1)),
                   !.accum = @ \o SubSeq(line, s + 1, Len(line)),
                   !.state = "Accumulate"]
    ELSE IF l.state = "Accumulate"
    THEN IF e # 0
         THEN [l EXCEPT !.other_data = Append(@, SubSeq(line, e + 1, Len(line))),
                        !.accum = @ \o SubSeq(line, 1, e - 1),
                        !.state = "Ready"]
         ELSE [l EXCEPT !.accum = @ \o line]
    ELSE [l EXCEPT !.other_data = PushOther(@, line, line)]

\* the second part without the reset of accum and state
FromReadReadyNoReset(l, b) ==
    IF l.state # "Ready" THEN [err |-> "", l |-> l]
    ELSE IF b.err # "" THEN [err |-> b.err, l |-> l]
    ELSE [err |-> "", l |-> [l EXCEPT !.transactions = @ \o b.messages, !.state = "Accumulate"]]

\* the second part: a Ready payload is parsed with the result b of parse_block4
FromReadReady(l, b) ==
    IF l.state # "Ready" THEN [err |-> "", l |-> l]
    ELSE IF b.err # "" THEN [err |-> b.err, l |-> l]
    ELSE [err |-> "",
          l |-> [l EXCEPT !.transactions = @ \o b.messages, !.accum = <<>>,
                          !.state = "Empty"]]

FromReadParsed(l) == FromReadReady(l, parse_block4(FieldsOf(l.accum)))

\* the loop body for one line
FromReadBody(l, line) ==
    FromReadParsed(FromReadLine(l, line, FindPiece(line, "start"), FindPiece(line, "end")))

\* the lines of the inputs: the head of a block, the head of a block with its
\* first field behind it, fields, the end of a block
Lines940 ==
    { <<TextPiece, StartPiece>>,
      <<TextPiece, StartPiece, FieldPiece("20", <<"T", "2">>)>>,
      <<FieldPiece("20", <<"T", "1">>)>>,
      <<FieldPiece("25", <<"A", "C">>)>>,
      <<FieldPiece("99", <<"X">>)>>,
      <<EndPiece, TextPiece>> }

RdIdle ==
    /\ rd = FromReadStart /\ rdN = 0 /\ rdBroken = FALSE /\ rdLine = <<>> /\ rdpc = "idle"

RdInput ==
    /\ rd = FromReadStart /\ rdN = 0 /\ rdBroken = FALSE /\ rdLine = <<>> /\ rdpc = "lines"

\* reader.lines() yields Ok(line)
RdLine ==
    /\ rdpc = "lines"
    /\ rdN < MaxLines
    /\ \E line \in Lines940 :
        LET r == FromReadBody(rd, line)
        IN /\ rd' = r.l
           /\ rdLine' = line
           /\ rdpc' = IF r.err # "" THEN r.err ELSE "lines"
    /\ rdN' = rdN + 1
    /\ UNCHANGED rdBroken
    /\ UNCHANGED notRd

\* reader.lines() yields Err: map_while(Result::ok) ends the loop
RdLineErr ==
    /\ rdpc = "lines"
    /\ rdBroken' = TRUE
    /\ rdpc' = "Ok"
    /\ UNCHANGED <<rd, rdN, rdLine>>
    /\ UNCHANGED notRd

\* reader.lines() is exhausted
RdEof ==
    /\ rdpc = "lines"
    /\ rdpc' = "Ok"
    /\ UNCHANGED <<rd, rdN, rdBroken, rdLine>>
    /\ UNCHANGED notRd

-----------------------------------------------------------------------------
(* MT940Format::collect_transactions, mt940_format.rs:826-841, run on the   *)
(* Messages parse_block4 returns for a payload.                             *)

\* the Transaction pushed for a statement line that uses the currency of the
\* closing balance
MtTransactionClosingCurrency(msg, statement) ==
    Transaction(statement.amount, msg.closing_balance.balance.iso_currency_code,
                statement.value_date, statement.ext_debit_credit_indicator)

\* the Transaction pushed for the statement line of the message msg
MtTransaction(msg, statement) ==
    Transaction(statement.amount, msg.opening_balance.balance.iso_currency_code,
                statement.value_date, statement.ext_debit_credit_indicator)

\* the fields of the payloads: two transaction reference numbers, an opening
\* and a closing balance in different currencies, two statement lines, a
\* statement line that does not parse, a narrative and a tag that is not
\* supported
BlockFields ==
    { Field940("20", <<"T", "1">>),
      Field940("20", <<"T", "2">>),
      Field940("60F", <<"C", "2", "4", "0", "1", "0", "2", "E", "U", "R", "1", "2", ",", "5">>),
      Field940("62F", <<"C", "2", "4", "0", "1", "0", "3", "U", "S", "D", "2", "0", ",", "5">>),
      Field940("61", <<"2", "4", "0", "1", "0", "2", "0", "1", "0", "3", "C", "F", "1", "2", ",", "5", "N", "T", "R", "F", "R", "E", "F", "/", "/", "B", "K">>),
      Field940("61", <<"2", "4", "0", "1", "0", "4", "R", "D", "3", ",", "0", "0", "N", "M", "S", "C">>),
      Field940("61", <<"X">>),
      Field940("86", <<"N">>),
      Field940("99", <<"X">>) }

\* the payload :20:TRN1 :25:DE00 :28C:1/1 :60F:.. :61:.. :86:NOTE :62F:..
Block4Example ==
    <<Field940("20", <<"T", "R", "N", "1">>),
       Field940("25", <<"D", "E", "0", "0">>),
       Field940("28C", <<"1", "/", "1">>),
       Field940("60F", <<"C", "2", "4", "0", "1", "0", "1", "E", "U", "R", "1", "0", "0", ",", "0", "0">>),
       Field940("61", <<"2", "4", "0", "1", "0", "2", "0", "1", "0", "2", "D", "1", ",", "2", "3", "N", "T", "R", "F", "R", "E", "F", "1", "/", "/", "B", "A", "N", "K", "1">>),
       Field940("86", <<"N", "O", "T", "E">>),
       Field940("62F", <<"C", "2", "4", "0", "1", "0", "2", "E", "U", "R", "9", "8", ",", "7", "7">>)>>

BlockInputs == UNION { [1..n -> BlockFields] : n \in 0..MaxFields }

BlkIdle ==
    /\ blkIn = <<>> /\ blkParsed = NoParse /\ blkTx = <<>>
    /\ blkAt = [m |-> 1, l |-> 1] /\ blkpc = "idle"

BlkInput ==
    /\ blkIn \in BlockInputs \cup {Block4Example}
    /\ blkParsed = NoParse /\ blkTx = <<>>
    /\ blkAt = [m |-> 1, l |-> 1] /\ blkpc = "read"

\* parse_block4 on the payload
BlkParse ==
    /\ blkpc = "read"
    /\ blkParsed' = parse_block4(blkIn)
    /\ blkpc' = IF blkParsed'.err = "" THEN "collect" ELSE "failed"
    /\ UNCHANGED <<blkIn, blkTx, blkAt>>
    /\ UNCHANGED notBlk

\* one turn of the inner loop: the next statement line of the message
BlkLine ==
    /\ blkpc = "collect"
    /\ blkAt.m <= Len(blkParsed.messages)
    /\ blkAt.l <= Len(blkParsed.messages[blkAt.m].statement_lines)
    /\ blkTx' = Append(blkTx, MtTransaction(blkParsed.messages[blkAt.m],
                                            blkParsed.messages[blkAt.m].statement_lines[blkAt.l]))
    /\ blkAt' = [blkAt EXCEPT !.l = @ + 1]
    /\ UNCHANGED <<blkIn, blkParsed, blkpc>>
    /\ UNCHANGED notBlk

\* the inner loop is over: the outer loop takes the next message
BlkMessage ==
    /\ blkpc = "collect"
    /\ blkAt.m <= Len(blkParsed.messages)
    /\ blkAt.l > Len(blkParsed.messages[blkAt.m].statement_lines)
    /\ blkAt' = [m |-> blkAt.m + 1, l |-> 1]
    /\ UNCHANGED <<blkIn, blkParsed, blkTx, blkpc>>
    /\ UNCHANGED notBlk

\* the outer loop is over: the list is returned
BlkReturn ==
    /\ blkpc = "collect"
    /\ blkAt.m > Len(blkParsed.messages)
    /\ blkpc' = "done"
    /\ UNCHANGED <<blkIn, blkParsed, blkTx, blkAt>>
    /\ UNCHANGED notBlk

-----------------------------------------------------------------------------
(* MT940Format::parse_61 on the text of one field 61, mt940_format.rs:304-437. *)

\* right.len() > 16 and tail.len() > 16: the bytes a reference may have
RefLen == 16

\* a reference of n bytes
Fill(n) == [k \in 1..n |-> "A"]

\* The texts are put together from one choice per token.  Every token has a
\* well-formed choice and choices that are absent or malformed; "C3" "BC" are
\* the two bytes of one character outside ASCII.
L61Dates == { <<"2", "4", "0", "1", "0", "2">>, <<"2", "4", "X", "1", "0", "2">>, <<"2", "4", "0", "1">>, <<>>, <<"2", "4", "0", "1", "0", "C3", "BC">> }
L61Entries == { <<>>, <<"0", "1", "0", "3">> }
L61Marks == { <<"C">>, <<"R", "D">>, <<"X">>, <<>>, <<"C3", "BC">> }
L61Funds == { <<>>, <<"F">> }
L61Ints == { <<"1", "2">>, <<>> }
L61Seps == { <<",">>, <<".">>, <<>> }
L61Fracs == { <<"5">>, <<>> }
L61Types == { <<"N", "T", "R", "F">>, <<"X", "T", "R", "F">>, <<>>, <<"C3", "BC", "T", "R", "F">>, <<"N", "T", "R", "C3", "BC">> }

\* the tails: nothing or a text on each side, of RefLen - 1, RefLen or
\* RefLen + 1 bytes, all ASCII or with a two-byte character at the start or
\* across the byte offset RefLen, with and without "//" between the sides
L61Sides ==
    { <<>>, <<"K">>, Fill(RefLen), Fill(RefLen + 1),
      <<LeadByte, NextByte>> \o Fill(RefLen - 2),
      <<LeadByte, NextByte>> \o Fill(RefLen - 1),
      Fill(RefLen - 1) \o <<LeadByte, NextByte, "Z">>,
      <<"K", "/", "/", "Z">> }

L61Tails == { l \o sep \o r : l \in L61Sides, sep \in {<<>>, <<"/", "/">>}, r \in L61Sides }

L61Token(date, entry, mark, funds, int, sep, frac, type, tail) ==
    [date |-> date, entry |-> entry, mark |-> mark, funds |-> funds, int |-> int,
     sep |-> sep, frac |-> frac, type |-> type, tail |-> tail]

\* every choice of the tokens in front of two tails, and every tail behind
\* two well-formed choices of the tokens
L61Tokens ==
    { L61Token(date, entry, mark, funds, int, sep, frac, type, tail) :
        date \in L61Dates, entry \in L61Entries, mark \in L61Marks,
        funds \in L61Funds, int \in L61Ints, sep \in L61Seps, frac \in L61Fracs,
        type \in L61Types, tail \in {<<>>, <<"R", "E", "F", "/", "/", "B", "K">>} }
    \cup
    { L61Token(<<"2", "4", "0", "1", "0", "2">>, entry, <<"C">>, <<>>, <<"1", "2">>, <<",">>, <<"5">>,
               <<"N", "T", "R", "F">>, tail) :
        entry \in L61Entries, tail \in L61Tails }

\* the text of field 61 for a choice of tokens
L61Text(tok) ==
    tok.date \o tok.entry \o tok.mark \o tok.funds \o tok.int \o tok.sep \o tok.frac
       \o tok.type \o tok.tail

NoToken == L61Token(<<>>, <<>>, <<>>, <<>>, <<>>, <<>>, <<>>, <<>>, <<>>)

L61Idle == l61Tok = NoToken /\ l61In = <<>> /\ l61Out = ParseErr /\ l61pc = "idle"

L61Input ==
    /\ l61Tok \in L61Tokens
    /\ l61In = L61Text(l61Tok)
    /\ l61Out = ParseErr
    /\ l61pc = "parse"

\* where parse_61 ends for its result r
L61Outcome(r) == IF r.ok THEN "Ok" ELSE IF Panicked(r) THEN "panic" ELSE "UnknownValueFormat"

\* parse_61 on the text
L61Parse ==
    /\ l61pc = "parse"
    /\ l61Out' = parse_61(l61In)
    /\ l61pc' = L61Outcome(l61Out')
    /\ UNCHANGED <<l61Tok, l61In>>
    /\ UNCHANGED notL61

-----------------------------------------------------------------------------
(* Camt053Format::write and write_to, camt053_format.rs:157-189.  The output *)
(* is the sequence of the events handed to the quick_xml Writer; tag is the  *)
(* Tag an event was written for.                                             *)

StartEvent(a, n) == [kind |-> "Start", name |-> a[n].name, attrs |-> a[n].attrs, tag |-> n]
TextEvent(a, n) == [kind |-> "Text", text |-> a[n].text, tag |-> n]
EndEvent(a, n) == [kind |-> "End", name |-> a[n].name, tag |-> n]

\* write for a Tag whose text is written behind its children
RECURSIVE WriteTextLast(_, _)
WriteTextLast(a, n) ==
    LET ch == a[n].childrens
        RECURSIVE Children(_)
        Children(i) == IF i > Len(ch) THEN <<>> ELSE WriteTextLast(a, ch[i]) \o Children(i + 1)
    IN <<StartEvent(a, n)>>
       \o Children(1)
       \o (IF a[n].hasText THEN <<TextEvent(a, n)>> ELSE <<>>)
       \o <<EndEvent(a, n)>>

\* write: the start tag with the attributes, the text if there is one, the
\* children in their order, the end tag
RECURSIVE Write(_, _)
Write(a, n) ==
    LET ch == a[n].childrens
        RECURSIVE Children(_)
        Children(i) == IF i > Len(ch) THEN <<>> ELSE Write(a, ch[i]) \o Children(i + 1)
    IN <<StartEvent(a, n)>>
       \o (IF a[n].hasText THEN <<TextEvent(a, n)>> ELSE <<>>)
       \o Children(1)
       \o <<EndEvent(a, n)>>

\* the start tags the documents are made of: a tag without attributes, a tag
\* with an attribute, and a start tag without a name
StartTags ==
    { [name |-> "A", attrs |-> <<>>],
      [name |-> "B", attrs |-> <<<<"k", "v">>>>],
      [name |-> "", attrs |-> <<>>] }

\* Ok(Event::Start(e)) with the attributes of e
EvStartTag ==
    /\ Reading
    /\ Len(arena) < MaxNodes + 1
    /\ \E st \in StartTags :
          /\ event' = XmlEvent("Start", st.name)
          /\ arena' = Append([arena EXCEPT ![previous_tag].childrens = Append(@, Len(arena) + 1)],
                             [Tag(st.name, previous_tag) EXCEPT !.attrs = st.attrs])
          /\ previous_tag' = Len(arena) + 1
    /\ nev' = nev + 1
    /\ UNCHANGED <<rstate, root, it, out, ended>>
    /\ UNCHANGED notCamt

WrIdle == wrOut = <<>> /\ wrpc = "idle"

\* write_to on the Camt053Format from_read returned, every write_event Ok
WriteTo ==
    /\ rstate = "ok"
    /\ wrpc = "idle"
    /\ wrOut' = Write(arena, root)
    /\ wrpc' = "Ok"
    /\ UNCHANGED camtVars
    /\ UNCHANGED notWr

\* write_to when a write_event returns an Err: the events before it were
\* written
WriteToErr ==
    /\ rstate = "ok"
    /\ wrpc = "idle"
    /\ LET full == Write(arena, root)
       IN \E k \in 0..(Len(full) - 1) : wrOut' = SubSeq(full, 1, k)
    /\ wrpc' = "ReadWriteError"
    /\ UNCHANGED camtVars
    /\ UNCHANGED notWr

-----------------------------------------------------------------------------
(* impl From<MT940Format> for Camt053Format, camt053_format.rs:208-515.  A    *)
(* Tag under construction is the record of its fields with its children in  *)
(* place of the Rc that own them; every Rc the converter creates is put     *)
(* into one children list.                                                  *)

NewTag(name, text, attrs, childrens) ==
    [name |-> name, text |-> text, attrs |-> attrs, childrens |-> childrens]

crt_with_text(name, text) == NewTag(name, text, <<>>, <<>>)
crt_with_child(name, child) == NewTag(name, None, <<>>, child)

debi_cred_name(x) == IF x \in {"Debit", "ReverseDebit"} THEN <<"D", "B", "I", "T">> ELSE <<"C", "R", "D", "T">>

\* NaiveDate::format("%Y-%m-%dT00:00:00")
FormatIsoMidnight(d) ==
    PadZero(NumDigits(d.y), 4) \o <<"-">> \o Pad2(d.m) \o <<"-">> \o Pad2(d.d) \o <<"T", "0", "0", ":", "0", "0", ":", "0", "0">>

\* Decimal + Decimal and Decimal - Decimal: the larger scale is kept; the
\* mantissa of a difference may be negative
Pow10(n) == IF n = 0 THEN 1 ELSE IF n = 1 THEN 10 ELSE IF n = 2 THEN 100 ELSE 1000
DecScaled(d, s) == d.m * Pow10(s - d.s)
MaxScale(x, y) == IF x.s >= y.s THEN x.s ELSE y.s
DecAdd(x, y) == Dec(DecScaled(x, MaxScale(x, y)) + DecScaled(y, MaxScale(x, y)), MaxScale(x, y))
DecSub(x, y) == Dec(DecScaled(x, MaxScale(x, y)) - DecScaled(y, MaxScale(x, y)), MaxScale(x, y))

\* Decimal::to_string with the sign
DecSignedToString(d) ==
    IF d.m < 0 THEN <<"-">> \o DecToString(Dec(0 - d.m, d.s)) ELSE DecToString(d)

\* looks_like_iban: 15 to 34 characters that are no whitespace
looks_like_iban(s) ==
    Cardinality({k \in 1..Len(s) : s[k] # " "}) \in 15..34

\* <Id> of the Stmt that takes the transaction reference number
StmtIdOfReference(msg) == crt_with_text("Id", Opt(msg.transaction_ref_no))

\* <Id>: the statement number, with "/" and the sequence number behind it
StmtId(msg) ==
    crt_with_text("Id",
        Opt(msg.statement_no
            \o (IF msg.sequence_no.some
                THEN <<"/">> \o msg.sequence_no.v ELSE <<>>)))

\* <ElctrncSeqNb>, pushed for a sequence number
StmtSeq(msg) ==
    IF msg.sequence_no.some
    THEN <<crt_with_text("ElctrncSeqNb", Opt(msg.sequence_no.v))>>
    ELSE <<>>

\* <FrToDt>
StmtFrToDt(msg) ==
    crt_with_child("FrToDt",
        <<crt_with_text("FrDtTm", Opt(FormatIsoMidnight(msg.opening_balance.balance.date))),
          crt_with_text("ToDtTm", Opt(FormatIsoMidnight(msg.closing_balance.balance.date)))>>)

\* <Acct>
StmtAcct(msg) ==
    NewTag("Acct", None, <<>>,
        <<IF looks_like_iban(msg.account_id)
          THEN crt_with_child("Id", <<crt_with_text("IBAN", Opt(msg.account_id))>>)
          ELSE crt_with_child("Id",
                  <<crt_with_child("Othr", <<crt_with_text("Id", Opt(msg.account_id))>>)>>),
          crt_with_text("Ccy", Opt(msg.opening_balance.balance.iso_currency_code))>>)

\* balance2tag
balance2tag(bal, type) ==
    crt_with_child("Bal",
        <<NewTag("Amt", Opt(DecToString(bal.amount)), << <<"Ccy", bal.iso_currency_code>> >>, <<>>),
          crt_with_text("CdtDbtInd", Opt(debi_cred_name(bal.debit_credit_indicator))),
          crt_with_child("Dt", <<crt_with_text("Dt", Opt(FormatIsoMidnight(bal.date)))>>),
          crt_with_child("Tp",
              <<crt_with_child("CdOrPrtry", <<crt_with_text("Cd", Opt(type))>>)>>)>>)

\* <Bal>: the opening and the closing balance and the available balances that
\* are there
StmtBals(msg) ==
    <<balance2tag(msg.opening_balance.balance, <<"O", "P", "B", "D">>),
      balance2tag(msg.closing_balance.balance, <<"C", "L", "B", "D">>)>>
    \o (IF msg.closing_available_balance.some
        THEN <<balance2tag(msg.closing_available_balance.v, <<"C", "L", "A", "V">>)>> ELSE <<>>)
    \o (IF msg.forward_available_balance.some
        THEN <<balance2tag(msg.forward_available_balance.v, <<"F", "W", "A", "V">>)>> ELSE <<>>)

\* the counters of <TxsSummry> after the lines from the k-th on
RECURSIVE SummaryFrom(_, _, _)
SummaryFrom(lines, k, c) ==
    IF k > Len(lines) THEN c
    ELSE SummaryFrom(lines, k + 1,
            IF lines[k].ext_debit_credit_indicator \in {"Credit", "ReverseCredit"}
            THEN [c EXCEPT !.cbt = @ + 1, !.cbt_sum = DecAdd(@, lines[k].amount)]
            ELSE [c EXCEPT !.dbt = @ + 1, !.dbt_sum = DecAdd(@, lines[k].amount)])

TxsSummryOf(lines, c) ==
    crt_with_child("TxsSummry",
        <<crt_with_child("TtlCdtNtries",
              <<crt_with_text("NbOfNtries", Opt(NumDigits(c.cbt))),
                crt_with_text("Sum", Opt(DecToString(c.cbt_sum)))>>),
          crt_with_child("TtlDbtNtries",
              <<crt_with_text("NbOfNtries", Opt(NumDigits(c.dbt))),
                crt_with_text("Sum", Opt(DecToString(c.dbt_sum)))>>),
          crt_with_child("TtlNtries",
              <<crt_with_text("NbOfNtries", Opt(NumDigits(Len(lines)))),
                crt_with_text("TtlNetNtryAmt", Opt(DecSignedToString(DecSub(c.cbt_sum, c.dbt_sum)))),
                crt_with_text("CdtDbtInd",
                    Opt(IF DecSub(c.cbt_sum, c.dbt_sum).m > 0 THEN <<"C", "R", "D", "T">> ELSE <<"D", "B", "I", "T">>))>>)>>)

\* <TxsSummry>
StmtSummary(msg) ==
    TxsSummryOf(msg.statement_lines,
                SummaryFrom(msg.statement_lines, 1,
                            [cbt |-> 0, cbt_sum |-> DecZero, dbt |-> 0, dbt_sum |-> DecZero]))

\* <Refs> of a statement line
NtryRefs(stat) ==
    NewTag("Refs", None, <<>>,
        <<crt_with_text("EndToEndId", Opt(stat.customer_ref))>>
        \o (IF stat.bank_ref.some THEN <<crt_with_text("TxId", Opt(stat.bank_ref.v))>> ELSE <<>>))

\* <Ntry> whose RvslInd is "false" for every indicator
NtryOfNeverReversed(msg, stat) ==
    NewTag("Ntry", None, <<>>,
        <<crt_with_text("CdtDbtInd", Opt(debi_cred_name(stat.ext_debit_credit_indicator))),
          crt_with_text("RvslInd", Opt(<<"f", "a", "l", "s", "e">>))>>
        \o (IF stat.bank_ref.some
            THEN <<crt_with_text("AcctSvcrRef", Opt(stat.bank_ref.v))>> ELSE <<>>)
        \o <<crt_with_child("NtryDtls", <<crt_with_child("TxDtls", <<NtryRefs(stat)>>)>>)>>)

\* <Ntry> of a statement line
NtryOf(msg, stat) ==
    NewTag("Ntry", None, <<>>,
        <<NewTag("Amt", Opt(DecToString(stat.amount)),
                 << <<"Ccy", msg.opening_balance.balance.iso_currency_code>> >>, <<>>),
          crt_with_text("CdtDbtInd", Opt(debi_cred_name(stat.ext_debit_credit_indicator))),
          crt_with_text("RvslInd",
              Opt(IF stat.ext_debit_credit_indicator \in {"ReverseCredit", "ReverseDebit"}
                  THEN <<"t", "r", "u", "e">> ELSE <<"f", "a", "l", "s", "e">>)),
          crt_with_child("ValDt", <<crt_with_text("Dt", Opt(FormatIsoMidnight(stat.value_date)))>>),
          crt_with_text("Sts", Opt(<<"B", "O", "O", "K">>)),
          crt_with_child("BkTxCd",
              <<crt_with_child("Prtry",
                    <<crt_with_text("Cd",
                          Opt(stat.customer_ref
                              \o (IF stat.supplementary_details.some
                                  THEN <<"/">> \o stat.supplementary_details.v ELSE <<>>))),
                      crt_with_text("Issr", Opt(<<"M", "T", "9", "4", "0">>))>>)>>)>>
        \o (IF stat.entry_date.some
            THEN <<crt_with_child("BookgDt",
                      <<crt_with_text("Dt", Opt(FormatIsoMidnight(stat.entry_date.v)))>>)>>
            ELSE <<>>)
        \o (IF stat.supplementary_details.some
            THEN <<crt_with_text("AddtlTxInf", Opt(stat.supplementary_details.v))>> ELSE <<>>)
        \o (IF stat.bank_ref.some
            THEN <<crt_with_text("AcctSvcrRef", Opt(stat.bank_ref.v))>> ELSE <<>>)
        \o <<crt_with_child("NtryDtls",
                <<crt_with_child("TxDtls",
                      <<NtryRefs(stat),
                        crt_with_text("AddtlTxInf", stat.information_to_account_owner)>>)>>)>>)

\* the body of the loop over the messages: the Stmt of one message
StmtOf(msg) ==
    NewTag("Stmt", None, <<>>,
        <<StmtId(msg)>>
        \o StmtSeq(msg)
        \o <<StmtFrToDt(msg), StmtAcct(msg)>>
        \o StmtBals(msg)
        \o <<StmtSummary(msg)>>
        \o [k \in 1..Len(msg.statement_lines) |->
               NtryOf(msg, msg.statement_lines[k])])

\* the root with its GrpHdr/MsgId, the text of MsgId a fresh Uuid, and the
\* Stmt of every message
RootOf(messages, uuid) ==
    NewTag("BkToCstmrStmt", None, <<>>,
        <<crt_with_child("GrpHdr", <<crt_with_text("MsgId", Opt(uuid))>>)>>
        \o [k \in 1..Len(messages) |-> StmtOf(messages[k])])

\* the Tags behind the Rc: the Tag t is allocated with a dead parent
\* reference (Weak::new()) behind those of a and pushed to the children of
\* owner, then the children of t that owner does not have yet, in their order
RECURSIVE Allocate(_, _, _)
RECURSIVE AllocateChildren(_, _, _)
AllocateChildren(a, owner, ch) ==
    IF Len(a[owner].childrens) >= Len(ch) THEN a
    ELSE AllocateChildren(Allocate(a, owner, ch[Len(a[owner].childrens) + 1]), owner, ch)
Allocate(a, owner, t) ==
    AllocateChildren(
        Append(IF owner = 0 THEN a ELSE [a EXCEPT ![owner].childrens = Append(@, Len(a) + 1)],
               [name |-> t.name, text |-> IF t.text.some THEN t.text.v ELSE <<>>,
                hasText |-> t.text.some, attrs |-> t.attrs, childrens |-> <<>>, parent |-> 0]),
        Len(a) + 1, t.childrens)

\* set_parent that stops at the children of start
SetParentOfChildren(a, start) ==
    [n \in 1..Len(a) |->
        IF \E i \in 1..Len(a[start].childrens) : a[start].childrens[i] = n
        THEN [a[n] EXCEPT !.parent = start] ELSE a[n]]

\* set_parent: every child of start gets start as its parent, then set_parent
\* of the child
RECURSIVE SetParent(_, _)
SetParent(a, start) ==
    LET RECURSIVE Each(_, _)
        Each(b, i) ==
            IF i > Len(b[start].childrens) THEN b
            ELSE Each(SetParent([b EXCEPT ![b[start].childrens[i]].parent = start],
                                b[start].childrens[i]), i + 1)
    IN Each(a, 1)

\* Camt053Format::from(v): the arena with the root at 1
FromMT940(messages, uuid) == SetParent(Allocate(<<>>, 0, RootOf(messages, uuid)), 1)

\* the statement lines the converter is tried on: every indicator, every
\* optional part there and missing
McLine1 ==
    [StatementLine(Date(2024, 1, 2), Opt(Date(2024, 1, 3)), "Debit", None, Dec(1250, 2), <<"N", "T", "R", "F">>,
                   [customer_ref |-> <<"R", "1">>, bank_ref |-> Opt(<<"B", "K">>),
                    supp |-> Opt(<<"S">>)])
     EXCEPT !.information_to_account_owner = Opt(<<"N">>)]
McLine2 ==
    StatementLine(Date(2024, 1, 4), None, "Credit", None, Dec(3, 0), <<"N", "T", "R", "F">>,
                  [customer_ref |-> <<"R", "2">>, bank_ref |-> None, supp |-> None])
McLine3 ==
    StatementLine(Date(2024, 1, 5), None, "ReverseDebit", None, Dec(205, 1), <<"N", "T", "R", "F">>,
                  [customer_ref |-> <<"R", "3">>, bank_ref |-> Opt(<<"B", "3">>), supp |-> None])
McLine4 ==
    StatementLine(Date(2024, 1, 6), Opt(Date(2024, 1, 6)), "ReverseCredit", None, Dec(100, 2), <<"N", "T", "R", "F">>,
                  [customer_ref |-> <<"R", "4">>, bank_ref |-> None, supp |-> Opt(<<"S", "4">>)])

\* a message with every header there, the account an IBAN, and a message
\* with the optional parts missing
McHeader1 ==
    [Message EXCEPT !.transaction_ref_no = <<"T", "1">>,
                    !.account_id = <<"D", "E", "8", "9", "3", "7", "0", "4", "0", "0", "4", "4", "0", "5", "3", "2", "0", "1", "3", "0", "0", "0">>,
                    !.statement_no = <<"7">>,
                    !.sequence_no = Opt(<<"2">>),
                    !.opening_balance =
                        Balance(FALSE, AvailableBalance("Credit", Date(2024, 1, 1), <<"E", "U", "R">>, Dec(10000, 2))),
                    !.closing_balance =
                        Balance(FALSE, AvailableBalance("Debit", Date(2024, 1, 7), <<"E", "U", "R">>, Dec(9877, 2))),
                    !.closing_available_balance =
                        Opt(AvailableBalance("Credit", Date(2024, 1, 7), <<"E", "U", "R">>, Dec(5, 0))),
                    !.forward_available_balance =
                        Opt(AvailableBalance("Credit", Date(2024, 1, 8), <<"E", "U", "R">>, Dec(6, 0)))]
McHeader2 ==
    [Message EXCEPT !.transaction_ref_no = <<"T", "2">>,
                    !.account_id = <<"A", "C", "C">>,
                    !.statement_no = <<"8">>]

McMessages ==
    { [McHeader1 EXCEPT !.statement_lines = l] :
        l \in {<<>>, <<McLine1>>, <<McLine1, McLine2>>, <<McLine3, McLine4>>} }
    \cup
    { [McHeader2 EXCEPT !.statement_lines = l] :
        l \in {<<>>, <<McLine2>>, <<McLine4, McLine1>>, <<McLine3>>} }

\* MT940Format.transactions
McInputs == UNION { [1..n -> McMessages] : n \in 0..MaxStmts }

\* the values Uuid::new_v4() is taken from
Uuids == {<<"u", "1">>, <<"u", "2">>}

McIdle == mcIn = <<>> /\ mcTree = <<>> /\ mcpc = "idle"

McInput ==
    /\ mcIn \in McInputs
    /\ mcTree = <<>>
    /\ mcpc = "from"

\* Camt053Format::from(v) of the MT940Format v
McFrom ==
    /\ mcpc = "from"
    /\ \E uuid \in Uuids :
        /\ arena' = FromMT940(mcIn, uuid)
        /\ root' = 1
        /\ rstate' = "ok"
        /\ it' = IterNew(arena', 1)
    /\ mcpc' = "again"
    /\ UNCHANGED <<previous_tag, nev, event, out, ended, mcIn, mcTree>>
    /\ UNCHANGED notMc

\* Camt053Format::from of an MT940Format equal to v
McAgain ==
    /\ mcpc = "again"
    /\ \E uuid \in Uuids : mcTree' = FromMT940(mcIn, uuid)
    /\ mcpc' = "done"
    /\ UNCHANGED <<mcIn>>
    /\ UNCHANGED camtVars
    /\ UNCHANGED notMc

\* collect_transactions is entered on the converted document: get_iter() and
\* the empty locals
McCollect ==
    /\ mcpc = "again"
    /\ colpc = "idle"
    /\ it' = IterNew(arena, root)
    /\ transaction' = NoTransaction
    /\ transactions' = <<>>
    /\ colpc' = "iter"
    /\ UNCHANGED <<arena, previous_tag, rstate, nev, event, root, out, ended, stmtIn>>
    /\ UNCHANGED notCol

\* MT940Format::collect_transactions: the Transaction of every statement
\* line of every message, in their order
RECURSIVE Mt940CollectTransactions(_)
Mt940CollectTransactions(messages) ==
    IF messages = <<>> THEN <<>>
    ELSE [k \in 1..Len(messages[1].statement_lines) |->
             MtTransaction(messages[1], messages[1].statement_lines[k])]
         \o Mt940CollectTransactions(Tail(messages))

-----------------------------------------------------------------------------
(* MT940Format::write_to, mt940_format.rs:573-625, as the pieces it hands   *)
(* to the writer: "{4:\n", the line of a field, "-}" and an entry of        *)
(* other_data.                                                               *)

OpenPiece == [piece |-> "{4:"]
ClosePiece == [piece |-> "-}"]
LinePiece(f) == [piece |-> "field", tag |-> f.tag, value |-> f.value]
OtherPiece(text) == [piece |-> "other", text |-> text]

\* the writer and the flag first_write
Writer(written, first) == [written |-> written, first |-> first]

\* write_message that writes "{4:\n" in front of every field
write_message_opens_always(w, f) == Writer(w.written \o <<OpenPiece, LinePiece(f)>>, FALSE)

\* write_message: "{4:\n" in front of the first field, then the line of the field
write_message(w, f) ==
    Writer(w.written \o (IF w.first THEN <<OpenPiece>> ELSE <<>>) \o <<LinePiece(f)>>, FALSE)

\* the calls of write_message for the fields of one message, in their order
RECURSIVE WriteFields(_, _, _)
WriteFields(w, fields, k) ==
    IF k > Len(fields) THEN w ELSE WriteFields(write_message(w, fields[k]), fields, k + 1)

\* one turn of the loop of write_to: the entry of other_data at the index of
\* the message, the fields, and "-}" when a field was written
WriteTurn(written, message, index, other_data) ==
    LET w == WriteFields(Writer(IF index <= Len(other_data)
                                THEN Append(written, OtherPiece(other_data[index]))
                                ELSE written, TRUE),
                         WriteMessage(message), 1)
    IN IF ~w.first THEN Append(w.written, ClosePiece) ELSE w.written

RECURSIVE WriteTurns(_, _, _, _)
WriteTurns(written, messages, index, other_data) ==
    IF index > Len(messages) THEN written
    ELSE WriteTurns(WriteTurn(written, messages[index], index, other_data),
                    messages, index + 1, other_data)

\* write_to: the turns of the loop, then the last entry of other_data when
\* there are more entries than messages
write_to(messages, other_data) ==
    LET written == WriteTurns(<<>>, messages, 1, other_data)
    IN IF Len(other_data) > Len(messages)
       THEN Append(written, OtherPiece(other_data[Len(other_data)]))
       ELSE written

\* the messages write_to is tried on: those of the conversion, the default
\* message, which writes no field, a message of one field, and a message
\* whose balances are there with the amount zero
WtMessages ==
    McMessages
    \cup {Message, [Message EXCEPT !.information_to_account_owner = Opt(<<"N">>)],
          [McHeader2 EXCEPT
              !.opening_balance =
                  Balance(TRUE, AvailableBalance("Credit", Date(2024, 1, 1), <<"E", "U", "R">>, Dec(0, 2))),
              !.closing_available_balance =
                  Opt(AvailableBalance("Credit", Date(2024, 1, 7), <<"E", "U", "R">>, Dec(0, 2)))]}

\* other_data: the texts around the blocks, fewer, as many or more than the
\* messages
WtInputs ==
    { [transactions |-> ms, other_data |-> [k \in 1..n |-> <<"{", NumDigits(k)[1], ":", "}">>]] :
        ms \in UNION { [1..j -> WtMessages] : j \in 0..MaxStmts }, n \in 0..3 }

NoFormat == [transactions |-> <<>>, other_data |-> <<>>]

WtIdle == wtIn = NoFormat /\ wtOut = <<>> /\ wtpc = "idle"

WtInput == wtIn \in WtInputs /\ wtOut = <<>> /\ wtpc = "write"

\* write_to, every write Ok
WtWrite ==
    /\ wtpc = "write"
    /\ wtOut' = write_to(wtIn.transactions, wtIn.other_data)
    /\ wtpc' = "Ok"
    /\ UNCHANGED wtIn
    /\ UNCHANGED notWt

\* write_to when a write returns an Err: what was written before it
WtWriteErr ==
    /\ wtpc = "write"
    /\ LET full == write_to(wtIn.transactions, wtIn.other_data)
       IN \E k \in 0..(Len(full) - 1) : wtOut' = SubSeq(full, 1, k)
    /\ wtpc' = "ReadWriteError"
    /\ UNCHANGED wtIn
    /\ UNCHANGED notWt

-----------------------------------------------------------------------------
(* CSVFormat::from_read record by record, csv_format.rs:57-143: one turn of  *)
(* the for loop for each record the csv reader yields, then the test of the  *)
(* columns and the table.                                                    *)

MaxRecords == 5

\* the records of the inputs: a row of one cell, a header row whose span is
\* the second and third cell, a row of letters in the span, a row with a
\* digit in front of the span only, a row with a digit in the span, and rows
\* of empty cells
ScanRows ==
    { <<<<"x">>>>,
      <<EmptyCell, DateColumn, <<"x">>>>,
      <<EmptyCell, <<"x">>, EmptyCell>>,
      <<<<"1">>, <<"x">>, <<"x">>>>,
      <<<<"x">>, <<"1">>, <<"x">>>>,
      <<EmptyCell, EmptyCell, EmptyCell>>,
      <<EmptyCell>> }

ScanIdle == scan = ScanStart /\ scanRec = <<>> /\ scanN = 0 /\ scanpc = "idle"

ScanInput == scan = ScanStart /\ scanRec = <<>> /\ scanN = 0 /\ scanpc = "records"

\* rdr.records() yields a record: one turn of the loop
ScanRow ==
    /\ scanpc = "records"
    /\ scanN < MaxRecords
    /\ \E rec \in ScanRows :
        /\ scan' = ScanRecord(scan, rec)
        /\ scanRec' = rec
    /\ scanN' = scanN + 1
    /\ scanpc' = IF scan'.panic THEN "panic" ELSE "records"
    /\ UNCHANGED notScan

\* rdr.records() is exhausted: Err when the columns or the table are empty
ScanEof ==
    /\ scanpc = "records"
    /\ scanpc' = IF scan.columns = <<>> \/ scan.table = <<>> THEN "DataFormatError" ELSE "Ok"
    /\ UNCHANGED <<scan, scanRec, scanN>>
    /\ UNCHANGED notScan

-----------------------------------------------------------------------------
(* Specifications *)

MtNext ==
    \/ MtParse
    \/ MtWrite
    \/ MtReparse

MtInit == MtInput /\ CamtIdle /\ CmpIdle /\ MergeIdle /\ ColIdle /\ CsvIdle /\ ConvIdle /\ CsvColIdle /\ RdIdle /\ BlkIdle /\ L61Idle /\ WrIdle /\ McIdle /\ WtIdle /\ ScanIdle

SpecMt == MtInit /\ [][MtNext]_vars

CsvNext ==
    \/ CsvParse
    \/ CsvWrite
    \/ CsvReparse

CsvInit == CsvInput /\ CamtIdle /\ CmpIdle /\ MergeIdle /\ ColIdle /\ MtIdle /\ ConvIdle /\ CsvColIdle /\ RdIdle /\ BlkIdle /\ L61Idle /\ WrIdle /\ McIdle /\ WtIdle /\ ScanIdle

SpecCsv == CsvInit /\ [][CsvNext]_vars

ColNext ==
    \/ CollectItem
    \/ CollectReturn

ColInit == ColInput /\ CmpIdle /\ MergeIdle /\ CsvIdle /\ MtIdle /\ ConvIdle /\ CsvColIdle /\ RdIdle /\ BlkIdle /\ L61Idle /\ WrIdle /\ McIdle /\ WtIdle /\ ScanIdle

SpecCol == ColInit /\ [][ColNext]_vars

MergeNext ==
    \/ MergeBalance
    \/ MergeAvailable

MergeInit == MergeInput /\ CamtIdle /\ CmpIdle /\ ColIdle /\ CsvIdle /\ MtIdle /\ ConvIdle /\ CsvColIdle /\ RdIdle /\ BlkIdle /\ L61Idle /\ WrIdle /\ McIdle /\ WtIdle /\ ScanIdle

SpecMerge == MergeInit /\ [][MergeNext]_vars

CmpNext ==
    \/ NewHolder1
    \/ NewHolder2
    \/ CmpPassAB
    \/ CmpPassBA

CmpInit == CmpInput /\ CamtIdle /\ MergeIdle /\ ColIdle /\ CsvIdle /\ MtIdle /\ ConvIdle /\ CsvColIdle /\ RdIdle /\ BlkIdle /\ L61Idle /\ WrIdle /\ McIdle /\ WtIdle /\ ScanIdle

SpecCmp == CmpInit /\ [][CmpNext]_vars

CamtNext ==
    \/ EvStart
    \/ EvText
    \/ EvEnd
    \/ EvComment
    \/ EvOther
    \/ EvEof
    \/ IterNext

CamtInit == CamtStart("reading") /\ CmpIdle /\ MergeIdle /\ ColIdle /\ CsvIdle /\ MtIdle /\ ConvIdle /\ CsvColIdle /\ RdIdle /\ BlkIdle /\ L61Idle /\ WrIdle /\ McIdle /\ WtIdle /\ ScanIdle

SpecCamt == CamtInit /\ [][CamtNext]_vars

ConvNext ==
    \/ ConvItem
    \/ ConvReturn

ConvInit == ConvInput /\ CmpIdle /\ MergeIdle /\ ColIdle /\ CsvIdle /\ MtIdle /\ CsvColIdle /\ RdIdle /\ BlkIdle /\ L61Idle /\ WrIdle /\ McIdle /\ WtIdle /\ ScanIdle

SpecConv == ConvInit /\ [][ConvNext]_vars

TblNext ==
    \/ TblParse
    \/ TblRow
    \/ TblReturn

TblInit ==
    CsvColInput /\ CamtIdle /\ CmpIdle /\ MergeIdle /\ ColIdle /\ CsvIdle /\ MtIdle /\ ConvIdle
                /\ RdIdle /\ BlkIdle /\ L61Idle /\ WrIdle /\ McIdle /\ WtIdle /\ ScanIdle

SpecTbl == TblInit /\ [][TblNext]_vars

RdNext ==
    \/ RdLine
    \/ RdLineErr
    \/ RdEof

RdInit ==
    RdInput /\ CamtIdle /\ CmpIdle /\ MergeIdle /\ ColIdle /\ CsvIdle /\ MtIdle /\ ConvIdle
            /\ CsvColIdle /\ BlkIdle /\ L61Idle /\ WrIdle /\ McIdle /\ WtIdle /\ ScanIdle

SpecRd == RdInit /\ [][RdNext]_vars

BlkNext ==
    \/ BlkParse
    \/ BlkLine
    \/ BlkMessage
    \/ BlkReturn

BlkInit ==
    BlkInput /\ CamtIdle /\ CmpIdle /\ MergeIdle /\ ColIdle /\ CsvIdle /\ MtIdle /\ ConvIdle
             /\ CsvColIdle /\ RdIdle /\ L61Idle /\ WrIdle /\ McIdle /\ WtIdle /\ ScanIdle

SpecBlk == BlkInit /\ [][BlkNext]_vars


L61Next == L61Parse

L61Init ==
    L61Input /\ CamtIdle /\ CmpIdle /\ MergeIdle /\ ColIdle /\ CsvIdle /\ MtIdle /\ ConvIdle
             /\ CsvColIdle /\ RdIdle /\ BlkIdle /\ WrIdle /\ McIdle /\ WtIdle /\ ScanIdle

SpecL61 == L61Init /\ [][L61Next]_vars

WrNext ==
    \/ EvStartTag
    \/ EvText
    \/ EvEnd
    \/ EvComment
    \/ EvOther
    \/ EvEof
    \/ WriteTo
    \/ WriteToErr

WrInit == CamtInit

SpecWr == WrInit /\ [][WrNext]_vars

McNext ==
    \/ McFrom
    \/ McAgain

McInit ==
    McInput /\ CamtIdle /\ CmpIdle /\ MergeIdle /\ ColIdle /\ CsvIdle /\ MtIdle /\ ConvIdle
            /\ CsvColIdle /\ RdIdle /\ BlkIdle /\ L61Idle /\ WrIdle /\ WtIdle /\ ScanIdle

SpecMc == McInit /\ [][McNext]_vars

\* the conversion from MT940 followed by collect_transactions on its result
McColNext ==
    \/ McFrom
    \/ McCollect
    \/ CollectItem
    \/ CollectReturn

SpecMcCol == McInit /\ [][McColNext]_vars

BalInit ==
    BalInput /\ CmpIdle /\ MergeIdle /\ ColIdle /\ CsvIdle /\ MtIdle /\ CsvColIdle
             /\ RdIdle /\ BlkIdle /\ L61Idle /\ WrIdle /\ McIdle /\ WtIdle /\ ScanIdle

SpecBal == BalInit /\ [][ConvNext]_vars

\* the trees of from_read and of the conversion from MT940
TreeNext ==
    \/ EvStartTag
    \/ EvText
    \/ EvEnd
    \/ EvComment
    \/ EvOther
    \/ EvEof
    \/ McFrom

TreeInit == CamtInit \/ McInit

SpecTree == TreeInit /\ [][TreeNext]_vars

ScanNext ==
    \/ ScanRow
    \/ ScanEof

ScanInit ==
    ScanInput /\ CamtIdle /\ CmpIdle /\ MergeIdle /\ ColIdle /\ CsvIdle /\ MtIdle /\ ConvIdle
              /\ CsvColIdle /\ RdIdle /\ BlkIdle /\ L61Idle /\ WrIdle /\ McIdle /\ WtIdle

SpecScan == ScanInit /\ [][ScanNext]_vars

WtNext ==
    \/ WtWrite
    \/ WtWriteErr

WtInit ==
    WtInput /\ CamtIdle /\ CmpIdle /\ MergeIdle /\ ColIdle /\ CsvIdle /\ MtIdle /\ ConvIdle
            /\ CsvColIdle /\ RdIdle /\ BlkIdle /\ L61Idle /\ WrIdle /\ McIdle /\ ScanIdle

SpecWt == WtInit /\ [][WtNext]_vars

-----------------------------------------------------------------------------
(* Reference definitions for the claims about the iterator *)

IsPrefix(s, t) == Len(s) <= Len(t) /\ SubSeq(t, 1, Len(s)) = s

\* the tags of the subtree of n, a tag before its children, children in
\* list order
RECURSIVE PreOrder(_, _)
PreOrder(a, n) ==
    LET ch == a[n].childrens
        RECURSIVE Sub(_)
        Sub(i) == IF i > Len(ch) THEN <<>> ELSE PreOrder(a, ch[i]) \o Sub(i + 1)
    IN <<n>> \o Sub(1)

\* the names on the way from the root down to n
RECURSIVE NamesTo(_)
NamesTo(n) ==
    IF n = root THEN <<arena[n].name>>
    ELSE Append(NamesTo(arena[n].parent), arena[n].name)

ExpectedViews ==
    LET po == PreOrder(arena, root)
    IN [k \in 1..Len(po) |-> [node |-> po[k], path |-> PathStr(NamesTo(po[k]))]]

\* C1: iterating Camt053Iter from the root of a parsed tree until the first
\* None yields every tag exactly once, in pre-order, each with the path of
\* the names from the root down to it, and the first view is the root with
\* the path "/" followed by the root's name.
C1_IterPreOrder ==
    rstate = "ok" =>
        /\ ended = 0 => IsPrefix(out, ExpectedViews)
        /\ ended >= 1 => IsPrefix(ExpectedViews, out)
        /\ Len(out) >= 1 =>
              out[1] = [node |-> root, path |-> <<"/", arena[root].name>>]

\* a full traversal of a tree in which the walk climbs two levels at once and
\* then moves to a sibling
C1_Witness ==
    /\ rstate = "ok" /\ ended = 1
    /\ out = ExpectedViews
    /\ Len(out) = 4
    /\ Len(arena[root].childrens) = 2
    /\ \E k \in 1..Len(out) : Len(out[k].path) = 6

-----------------------------------------------------------------------------
(* Claims about the comparer and the holder *)

ComparedAB == cpc \in {"ba", "end"}

\* C2: the comparer stops at the first index at which both sequences have an
\* element and the two elements differ, and reports a mismatch; it reports
\* equivalence only when the two sorted sequences are equal element by element.
C2_StopsAtFirstDifference ==
    /\ cpc = "ab" =>
         \A k \in 1..Len(holder1) :
            (k <= cst.i1 /\ k <= cst.i2 /\ k <= Len(holder2)) => holder1[k] = holder2[k]
    /\ (ComparedAB /\ resAB.kind = "identical") => holder1 = holder2

\* C3: when one sorted sequence is exhausted while the other still has an
\* element at that index, the comparer reports a mismatch showing that element
\* and naming the file that holds it as the one that has it.
C3_SurplusReported ==
    ComparedAB =>
        /\ Len(holder1) > Len(holder2) =>
              LET t == holder1[Len(holder2) + 1]
              IN resAB = [kind |-> "mismatch", shown |-> <<t.amount, t.date>>,
                          has |-> 1, lacks |-> 2]
        /\ Len(holder2) > Len(holder1) =>
              LET t == holder2[Len(holder1) + 1]
              IN resAB = [kind |-> "mismatch", shown |-> <<t.amount, t.date>>,
                          has |-> 2, lacks |-> 1]

\* comparing [t] with []: t is in the first file and not in the second
C3_Witness ==
    /\ ComparedAB
    /\ Len(holder1) = 1 /\ holder2 = <<>>
    /\ resAB.kind = "mismatch" /\ resAB.has = 1 /\ resAB.lacks = 2
    /\ resAB.shown = <<holder1[1].amount, holder1[1].date>>

\* C4: compare(A, B) and compare(B, A) both report equivalence, or both report
\* a mismatch showing the same transaction with the two files swapped.
C4_Symmetric ==
    cpc = "end" =>
        \/ resAB.kind = "identical" /\ resBA.kind = "identical"
        \/ /\ resAB.kind = "mismatch" /\ resBA.kind = "mismatch"
           /\ resAB.shown = resBA.shown
           /\ resAB.has = resBA.lacks /\ resAB.lacks = resBA.has

\* both orders ended in a mismatch, after a pair of transactions was compared
C4_Witness ==
    /\ cpc = "end"
    /\ resAB.kind = "mismatch" /\ resBA.kind = "mismatch"
    /\ holder1 # <<>> /\ holder2 # <<>>
    /\ resAB.has = 2 /\ resBA.has = 1

StableSortOf(h, l) ==
    /\ Len(h) = Len(l)
    /\ \E p \in [1..Len(l) -> 1..Len(l)] :
        /\ \A i, j \in 1..Len(l) : i # j => p[i] # p[j]
        /\ \A k \in 1..Len(l) : h[k] = l[p[k]]
        /\ \A i, j \in 1..Len(l) : i < j => h[i].date <= h[j].date
        /\ \A i, j \in 1..Len(l) : (i < j /\ h[i].date = h[j].date) => p[i] < p[j]

\* C5: TransactionHolder::new yields a permutation of the collected list in
\* non-decreasing date order in which transactions of equal date keep their
\* original relative order.
C5_HolderStableSorted ==
    /\ cpc # "new1" => StableSortOf(holder1, raw1)
    /\ cpc \notin {"new1", "new2"} => StableSortOf(holder2, raw2)

\* a holder whose list was out of date order, and one with two different
\* transactions of the same date
C5_Witness ==
    /\ cpc = "ab"
    /\ Len(raw1) = 2 /\ raw1[1].date > raw1[2].date /\ holder1 = <<raw1[2], raw1[1]>>
    /\ Len(raw2) = 2 /\ raw2[1].date = raw2[2].date /\ raw2[1] # raw2[2] /\ holder2 = raw2

-----------------------------------------------------------------------------
(* Claims about Balance merge *)

\* C8: merging a balance into itself, or merging an entirely default balance
\* into it, leaves the target unchanged; a field of the target changes only
\* when the incoming field is non-default (an indicator other than Debit, a
\* date other than the default date, a non-empty currency, a non-zero amount,
\* a set intermediate flag), and then it takes the incoming value.
C8_MergeIdempotentIdentity ==
    mpc \in {"balance", "available"} =>
        LET t == mTarget.balance
            i == mIncoming.balance
            r == mResult.balance
        IN /\ mIncoming = mTarget => mResult = mTarget
           /\ mIncoming = DefaultBalance => mResult = mTarget
           /\ r.debit_credit_indicator # t.debit_credit_indicator =>
                 (i.debit_credit_indicator # "Debit"
                    /\ r.debit_credit_indicator = i.debit_credit_indicator)
           /\ r.date # t.date => (i.date # Date(1970, 1, 1) /\ r.date = i.date)
           /\ r.iso_currency_code # t.iso_currency_code =>
                 (i.iso_currency_code # <<>> /\ r.iso_currency_code = i.iso_currency_code)
           /\ r.amount # t.amount => (i.amount.m # 0 /\ r.amount = i.amount)
           /\ mResult.is_intermediate # mTarget.is_intermediate =>
                 (mpc = "balance" /\ mIncoming.is_intermediate /\ mResult.is_intermediate)

\* a fully set balance merged into itself
C8_Witness ==
    /\ mpc = "balance"
    /\ mIncoming = mTarget
    /\ mResult = mTarget
    /\ mTarget.is_intermediate
    /\ mTarget.balance.debit_credit_indicator = "Credit"
    /\ mTarget.balance.date # DefaultDate
    /\ mTarget.balance.iso_currency_code # <<>>
    /\ mTarget.balance.amount.m # 0

-----------------------------------------------------------------------------
(* Claims about Camt053Format::collect_transactions *)

\* the Dt text can be read as a date by collect_transactions
DtReadable(f) ==
    f.present /\ Len(f.text) >= 10 /\ ParseDateYmdDash(SubSeq(f.text, 1, 10)).ok

\* C10: extraction never fails: it does not abort on any tree, a Dt whose
\* text cannot be read as a date (shorter than 10 characters and empty
\* included) leaves the date of the transaction at the default, an Amt that
\* cannot be read leaves the amount at zero, and the list returned holds one
\* transaction per entry.
C10_ExtractionNeverFails ==
    /\ colpc # "panic"
    /\ colpc = "done" =>
          /\ Len(transactions) = Len(stmtIn)
          /\ \A k \in 1..Len(stmtIn) :
                /\ ~DtReadable(stmtIn[k].dt) => transactions[k].date = DefaultDate
                /\ ~(stmtIn[k].amt.present /\ ParseDecimal(ReplaceComma(stmtIn[k].amt.text)).ok)
                      => transactions[k].amount = DecZero

-----------------------------------------------------------------------------
(* Claims about CSVFormat *)

\* C7: CSV round trip: whenever from_read succeeds on x, from_read succeeds
\* on what write_to wrote and yields the same columns, the same number of
\* table rows and the same cells.
C7_CsvRoundTrip ==
    csvpc = "done" =>
        /\ csvFmt2.status = "ok"
        /\ csvFmt2.columns = csvFmt.columns
        /\ Len(csvFmt2.table) = Len(csvFmt.table)
        /\ csvFmt2.table = csvFmt.table

-----------------------------------------------------------------------------
(* Claims about MT940Format *)

StrKept(a, b) == a # <<>> => b = a
OptKept(a, b) == a.some => b = a

AvailableKept(a, b) ==
    /\ a.debit_credit_indicator # "Debit" => b.debit_credit_indicator = a.debit_credit_indicator
    /\ a.date # DefaultDate => b.date = a.date
    /\ StrKept(a.iso_currency_code, b.iso_currency_code)
    /\ ~DecIsZero(a.amount) => b.amount = a.amount

BalanceKept(a, b) ==
    /\ a.is_intermediate => b.is_intermediate
    /\ AvailableKept(a.balance, b.balance)

LineKept(a, b) ==
    /\ b.value_date = a.value_date
    /\ OptKept(a.entry_date, b.entry_date)
    /\ b.ext_debit_credit_indicator = a.ext_debit_credit_indicator
    /\ OptKept(a.funds_code, b.funds_code)
    /\ b.amount = a.amount
    /\ b.transaction_type_ident_code = a.transaction_type_ident_code
    /\ StrKept(a.customer_ref, b.customer_ref)
    /\ OptKept(a.bank_ref, b.bank_ref)
    /\ OptKept(a.supplementary_details, b.supplementary_details)
    /\ OptKept(a.information_to_account_owner, b.information_to_account_owner)

MessageKept(a, b) ==
    /\ StrKept(a.transaction_ref_no, b.transaction_ref_no)
    /\ OptKept(a.ref_to_related_msg, b.ref_to_related_msg)
    /\ StrKept(a.account_id, b.account_id)
    /\ StrKept(a.statement_no, b.statement_no)
    /\ OptKept(a.sequence_no, b.sequence_no)
    /\ BalanceKept(a.opening_balance, b.opening_balance)
    /\ Len(b.statement_lines) = Len(a.statement_lines)
    /\ \A k \in 1..Len(a.statement_lines) : LineKept(a.statement_lines[k], b.statement_lines[k])
    /\ BalanceKept(a.closing_balance, b.closing_balance)
    /\ a.closing_available_balance.some =>
          /\ b.closing_available_balance.some
          /\ AvailableKept(a.closing_available_balance.v, b.closing_available_balance.v)
    /\ a.forward_available_balance.some =>
          /\ b.forward_available_balance.some
          /\ AvailableKept(a.forward_available_balance.v, b.forward_available_balance.v)
    /\ OptKept(a.information_to_account_owner, b.information_to_account_owner)

\* C6: MT940 round trip: whenever parse_block4 succeeds on x, the output of
\* write_to parses again and gives as many messages, each with every
\* non-default field value of the message parsed from x.
C6_Mt940RoundTrip ==
    mtpc = "done" =>
        /\ mtParsed2.err = ""
        /\ Len(mtParsed2.messages) = Len(mtParsed.messages)
        /\ \A k \in 1..Len(mtParsed.messages) :
              MessageKept(mtParsed.messages[k], mtParsed2.messages[k])

-----------------------------------------------------------------------------
\* the Stmt st carries a Bal block with the type code cd
HasBal(st, cd) == \E i \in 1..Len(st.bals) : st.bals[i] = cd

\* every field of the message m whose source is absent from the Stmt st is at
\* its default value
AbsentStaysDefault(doc, st, m) ==
    /\ st.ntry = <<>> => m.statement_lines = <<>>
    /\ ~HasBal(st, OPBD) => m.opening_balance = DefaultBalance
    /\ ~HasBal(st, CLBD) => m.closing_balance = DefaultBalance
    /\ ~HasBal(st, CLAV) => m.closing_available_balance = None
    /\ ~doc.hdr => m.ref_to_related_msg = None
    /\ m.forward_available_balance = None
    /\ m.account_id = <<>> /\ m.statement_no = <<>>
    /\ m.sequence_no = None /\ m.information_to_account_owner = None

\* C9: the conversion of a parsed CAMT.053 document returns, and in the
\* Message made for a Stmt (the one that carries the Stmt's Id) every field
\* whose source the Stmt does not contain is left at its default or empty value.
C9_ConversionAbsentStaysDefault ==
    convpc = "done" =>
        \A k \in 1..Len(docIn.stmts) : \A j \in 1..Len(conv.result) :
            (docIn.stmts[k].hasId /\ conv.result[j].transaction_ref_no = ConvId(k))
                => AbsentStaysDefault(docIn, docIn.stmts[k], conv.result[j])

-----------------------------------------------------------------------------
\* C11: collect_transactions on a successfully parsed CSVFormat never aborts,
\* whatever the header names of the table are.
C11_CsvExtractionNeverFails == tblpc # "panic"

\* the calendar date a cell denotes, in either notation of the inputs
DateOfCell(cell) ==
    IF ParseDateYmdDash(cell).ok THEN ParseDateYmdDash(cell) ELSE ParseDateDmyDot(cell)

\* C14: the k-th transaction of the returned list is made from the k-th row of
\* the table: its date is the posting date of the row, it is a Debit with the
\* debit cell's amount when that cell is not empty and a Credit with the
\* credit cell's amount otherwise.
C14_CsvRowsBecomeTransactions ==
    (tblpc = "done" /\ tblFmt.columns = <<DateColumn, DebitColumn, CreditColumn>>) =>
        /\ Len(tblTx) = Len(tblFmt.table)
        /\ \A k \in 1..Len(tblTx) :
            LET row == tblFmt.table[k]
            IN /\ DateOfCell(row[1]).ok => tblTx[k].date = DateOfCell(row[1]).v
               /\ tblTx[k].operation_type = IF row[2] # <<>> THEN "Debit" ELSE "Credit"
               /\ LET a == ParseDecimal(ReplaceComma(IF row[2] # <<>> THEN row[2] ELSE row[3]))
                  IN a.ok => tblTx[k].amount = a.v

-----------------------------------------------------------------------------
\* C12: from_read never returns an Ok document when an error occurred while
\* the input was read: a failing read of the stream, like a payload that fails
\* field parsing, makes it return Err.
C12_ParseAllOrNothing == rdpc = "Ok" => ~rdBroken

-----------------------------------------------------------------------------
\* the transaction the entry e stands for: the amount and Ccy of its Amt, the
\* indicator of its CdtDbtInd and the date in the first 10 characters of its
\* ValDt/Dt, each left at the default when it is absent or cannot be read
EntryTransaction(e) ==
    Transaction(IF e.amt.present /\ ParseDecimal(ReplaceComma(e.amt.text)).ok
                THEN ParseDecimal(ReplaceComma(e.amt.text)).v ELSE DecZero,
                IF e.amt.present /\ FindAttr(e.amt.attrs, "Ccy").some
                THEN FindAttr(e.amt.attrs, "Ccy").v ELSE <<>>,
                IF DtReadable(e.dt) THEN ParseDateYmdDash(SubSeq(e.dt.text, 1, 10)).v
                ELSE DefaultDate,
                IF e.ind.present /\ e.ind.text = <<"C", "R", "D", "T">> THEN "Credit"
                ELSE "Debit")

\* C13: the list collect_transactions returns holds exactly one Transaction per
\* /Stmt/Ntry node, in document order, the last one included, each with the
\* amount and currency of its Amt, Debit/Credit from CdtDbtInd (CRDT is Credit,
\* anything else Debit) and the date of ValDt/Dt.
C13_OneTransactionPerEntry ==
    colpc = "done" =>
        /\ Len(transactions) = Len(stmtIn)
        /\ \A k \in 1..Len(stmtIn) : transactions[k] = EntryTransaction(stmtIn[k])

\* two entries were extracted, the first a Credit of 12.5 EUR dated 2026-01-20
C13_Witness ==
    /\ colpc = "done"
    /\ Len(stmtIn) = 2
    /\ transactions[1] =
         Transaction(Dec(125, 1), <<"E", "U", "R">>, Date(2026, 1, 20), "Credit")
    /\ transactions[2] # transactions[1]

-----------------------------------------------------------------------------
\* the transactions of the statement lines of the messages from the k-th on,
\* message by message and line by line
RECURSIVE LinesOfMessages(_, _)
LinesOfMessages(messages, k) ==
    IF k > Len(messages) THEN <<>>
    ELSE [j \in 1..Len(messages[k].statement_lines) |->
             [amount |-> messages[k].statement_lines[j].amount,
              currency |-> messages[k].opening_balance.balance.iso_currency_code,
              date |-> messages[k].statement_lines[j].value_date,
              operation_type |-> messages[k].statement_lines[j].ext_debit_credit_indicator]]
         \o LinesOfMessages(messages, k + 1)

\* C15: the list MT940 extraction returns holds exactly one Transaction per
\* statement line over all Messages, in message order then line order, with the
\* line's amount, indicator and value date and the currency of the opening
\* balance of the Message that contains the line.
C15_Mt940OneTransactionPerLine ==
    blkpc = "done" => blkTx = LinesOfMessages(blkParsed.messages, 1)

\* a message with an opening balance and two statement lines was extracted:
\* two transactions in the currency of that balance, in the order of the lines
C15_Witness ==
    /\ blkpc = "done"
    /\ Len(blkParsed.messages) = 1
    /\ Len(blkTx) = 2
    /\ blkTx[1].currency = <<"E", "U", "R">>
    /\ blkTx[2].currency = <<"E", "U", "R">>
    /\ blkTx[1].operation_type # blkTx[2].operation_type

-----------------------------------------------------------------------------
\* the number of 20 fields among the first i fields: the message a field at i
\* belongs to, 0 for none
Owner(fields, i) == Cardinality({p \in 1..i : fields[p].tag = "20"})

\* the j-th smallest position of the set S
NthOf(S, j) == CHOOSE i \in S : Cardinality({x \in S : x <= i}) = j

\* the positions of the 61 fields of the k-th message
LinePositions(fields, k) ==
    {i \in 1..Len(fields) : fields[i].tag = "61" /\ Owner(fields, i) = k}

\* the 86 fields that follow position i with no 20 and no 61 in between
NarrativePositions(fields, i) ==
    {p \in (i + 1)..Len(fields) :
        /\ fields[p].tag = "86"
        /\ \A q \in (i + 1)..p : fields[q].tag \notin {"20", "61"}}

\* the narrative the 86 fields behind position i leave: the text of the last
NarrativeBehind(fields, i) ==
    IF NarrativePositions(fields, i) = {} THEN None
    ELSE Opt(fields[NthOf(NarrativePositions(fields, i),
                          Cardinality(NarrativePositions(fields, i)))].value)

\* the k-th message is the one the k-th 20 opened, with the 61 fields up to the
\* next 20 as its lines and the 86 fields as narratives
MessageOfField20(fields, messages, k) ==
    /\ messages[k].transaction_ref_no
          = fields[NthOf({i \in 1..Len(fields) : fields[i].tag = "20"}, k)].value
    /\ messages[k].information_to_account_owner
          = NarrativeBehind(fields, NthOf({i \in 1..Len(fields) : fields[i].tag = "20"}, k))
    /\ Len(messages[k].statement_lines) = Cardinality(LinePositions(fields, k))
    /\ \A j \in 1..Len(messages[k].statement_lines) :
          messages[k].statement_lines[j]
             = [parse_61(fields[NthOf(LinePositions(fields, k), j)].value).v
                   EXCEPT !.information_to_account_owner =
                             NarrativeBehind(fields, NthOf(LinePositions(fields, k), j))]

\* the result for the example: one message TRN1 with one line 1.23 Debit
\* REF1 BANK1 NOTE
Block4ExampleResult(messages) ==
    /\ Len(messages) = 1
    /\ messages[1].transaction_ref_no = <<"T", "R", "N", "1">>
    /\ Len(messages[1].statement_lines) = 1
    /\ messages[1].statement_lines[1].amount = [m |-> 123, s |-> 2]
    /\ messages[1].statement_lines[1].ext_debit_credit_indicator = "Debit"
    /\ messages[1].statement_lines[1].customer_ref = <<"R", "E", "F", "1">>
    /\ messages[1].statement_lines[1].bank_ref = Opt(<<"B", "A", "N", "K", "1">>)
    /\ messages[1].statement_lines[1].information_to_account_owner = Opt(<<"N", "O", "T", "E">>)

\* C16: field-parsing a payload gives one Message per 20 field, in order; every
\* 61 is appended, in order, to the Message of the nearest preceding 20; an 86
\* sets the narrative of the line appended last to that Message, or the
\* message-level narrative when the Message has no line yet.  The example
\* payload gives one Message TRN1 with one line 1.23, Debit, REF1, BANK1, NOTE.
C16_Block4MessagesAndLines ==
    (blkpc # "read" /\ blkParsed.err = "") =>
        /\ Len(blkParsed.messages) = Owner(blkIn, Len(blkIn))
        /\ \A k \in 1..Len(blkParsed.messages) : MessageOfField20(blkIn, blkParsed.messages, k)
        /\ blkIn = Block4Example => Block4ExampleResult(blkParsed.messages)

\* a payload with a narrative in front of its line and one behind it was
\* parsed: the first is the narrative of the message, the second of the line
C16_Witness ==
    /\ blkpc = "done"
    /\ blkParsed.err = ""
    /\ Len(blkIn) = 4
    /\ blkIn[2].tag = "86" /\ blkIn[3].tag = "61" /\ blkIn[4].tag = "86"
    /\ Len(blkParsed.messages) = 1
    /\ blkParsed.messages[1].information_to_account_owner.some
    /\ blkParsed.messages[1].statement_lines[1].information_to_account_owner.some

-----------------------------------------------------------------------------
SupportedTags ==
    {"20", "21", "25", "28", "28C", "60F", "60M", "61", "86", "62F", "62M", "64", "65"}

\* the field at i has a tag outside the supported set, or a supported tag
\* other than 20 with no 20 in front of it
Misplaced(fields, i) ==
    \/ fields[i].tag \notin SupportedTags
    \/ fields[i].tag # "20" /\ Owner(fields, i) = 0

\* the field at i has a balance or a statement line that does not parse
Unreadable(fields, i) ==
    \/ /\ fields[i].tag \in {"60F", "60M", "62F", "62M", "64", "65"}
       /\ ~parse_balance(fields[i].value, IF fields[i].tag \in {"64", "65"} THEN 13 ELSE 11,
                         fields[i].tag \in {"60M", "62M"}).ok
    \/ fields[i].tag = "61" /\ ~parse_61(fields[i].value).ok

\* C17: when the first field the parse fails on is a supported tag other than
\* 20 in front of the first 20 the parse fails with DataFormatError, when it is
\* a tag outside {20, 21, 25, 28, 28C, 60F, 60M, 61, 86, 62F, 62M, 64, 65} it
\* fails with UnsupportedTag; in both cases no Message list is returned and
\* nothing is extracted.
C17_Block4DispatchErrors ==
    blkpc # "read" =>
        \A i \in 1..Len(blkIn) :
            (/\ Misplaced(blkIn, i)
             /\ \A j \in 1..(i - 1) : ~Misplaced(blkIn, j) /\ ~Unreadable(blkIn, j))
            => /\ blkpc = "failed"
               /\ blkParsed.messages = <<>>
               /\ blkTx = <<>>
               /\ blkParsed.err = IF blkIn[i].tag \in SupportedTags
                                  THEN "DataFormatError" ELSE "UnsupportedTagError"

\* both failures were seen in front of the first 20: here a supported tag
\* with no message, followed by a tag that is not supported
C17_Witness ==
    /\ blkpc = "failed"
    /\ Len(blkIn) >= 2
    /\ blkIn[1].tag = "86" /\ blkIn[2].tag = "99"
    /\ blkParsed.err = "DataFormatError"

-----------------------------------------------------------------------------
\* the number of characters of a text
CharLen(s) == Cardinality({k \in 1..Len(s) : s[k] # NextByte})

\* the bytes of the first n characters of a text
TakeChars(s, n) ==
    IF CharLen(s) <= n THEN s
    ELSE SubSeq(s, 1, NthOf({k \in 1..Len(s) : s[k] # NextByte}, n + 1) - 1)

\* the bytes behind the first n characters of a text
DropChars(s, n) == SubSeq(s, Len(TakeChars(s, n)) + 1, Len(s))

\* the references of a tail whose part behind "//" is right
RefsWithBank(left, right) ==
    [customer_ref |-> left,
     bank_ref |-> Opt(TakeChars(right, RefLen)),
     supp |-> IF CharLen(right) > RefLen THEN Opt(DropChars(right, RefLen)) ELSE None]

\* the references of a tail with its first "//" at position p, 0 for none
RefsOfTail(tail, p) ==
    IF p # 0 THEN RefsWithBank(SubSeq(tail, 1, p - 1), SubSeq(tail, p + 2, Len(tail)))
    ELSE IF CharLen(tail) > RefLen
    THEN [customer_ref |-> TakeChars(tail, RefLen), bank_ref |-> None,
          supp |-> Opt(DropChars(tail, RefLen))]
    ELSE [customer_ref |-> tail, bank_ref |-> None, supp |-> None]

\* the tokens in front of the tail are well-formed and ASCII
WellFormedHead(tok) ==
    /\ tok.date = <<"2", "4", "0", "1", "0", "2">>
    /\ tok.mark \in {<<"C">>, <<"R", "D">>}
    /\ tok.int # <<>> /\ tok.sep # <<>> /\ tok.frac # <<>>
    /\ tok.type = <<"N", "T", "R", "F">>

\* the StatementLine has the references refs
HasRefs(line, refs) ==
    /\ line.customer_ref = refs.customer_ref
    /\ line.bank_ref = refs.bank_ref
    /\ line.supplementary_details = refs.supp

\* C18: the tail behind the type code of a field 61 is split as follows: with
\* a "//" in it, the part left of the first "//" is the customer reference and
\* the part right of it the bank reference, cut to its first 16 characters with
\* the rest as supplementary detail; otherwise a tail of more than 16
\* characters gives its first 16 as customer reference and the rest as
\* supplementary detail; otherwise the whole tail is the customer reference and
\* there is no bank reference and no supplementary detail.
C18_TailSplit ==
    (l61pc # "parse" /\ WellFormedHead(l61Tok)) =>
        /\ l61pc = "Ok"
        /\ HasRefs(l61Out.v, RefsOfTail(l61Tok.tail, FindSlashes(l61Tok.tail)))

-----------------------------------------------------------------------------
\* a token of the field is absent or malformed: no value date or one that is
\* no date, no D, C, RD or RC, no integer digits, no separator, no fractional
\* digits, no N with three characters behind it
MalformedToken(tok) ==
    \/ tok.date # <<"2", "4", "0", "1", "0", "2">>
    \/ tok.mark \notin {<<"C">>, <<"R", "D">>}
    \/ tok.int = <<>>
    \/ tok.sep = <<>>
    \/ tok.frac = <<>>
    \/ tok.type \notin {<<"N", "T", "R", "F">>, <<"N", "T", "R", LeadByte, NextByte>>}

\* the StatementLine has the values of the tokens, taken left to right
HasTokens(line, tok) ==
    /\ line.value_date = Date(2024, 1, 2)
    /\ line.entry_date = IF tok.entry = <<>> THEN None ELSE Opt(Date(2024, 1, 3))
    /\ line.ext_debit_credit_indicator = IF tok.mark = <<"C">> THEN "Credit" ELSE "ReverseCredit"
    /\ line.funds_code = IF tok.funds = <<>> THEN None ELSE Opt(tok.funds)
    /\ line.amount = [m |-> 125, s |-> 1]
    /\ line.transaction_type_ident_code = SubSeq(tok.type, 2, Len(tok.type))

\* C19: parse_61 takes value date, optional entry date, debit/credit token,
\* optional funds code, integer digits, "," or ".", fractional digits and N
\* with a 3-character type code from left to right, and returns
\* UnknownValueFormat, never a StatementLine, when one of them is absent or
\* malformed.
C19_Parse61StageErrors ==
    l61pc # "parse" =>
        /\ MalformedToken(l61Tok) => l61pc = "UnknownValueFormat"
        /\ l61pc = "Ok" => HasTokens(l61Out.v, l61Tok)

-----------------------------------------------------------------------------
\* the position of the event of a kind written for the tag n
EventAt(o, kind, n) == CHOOSE i \in 1..Len(o) : o[i].kind = kind /\ o[i].tag = n

\* the number of events of a kind written for the tag n
EventCount(o, kind, n) == Cardinality({i \in 1..Len(o) : o[i].kind = kind /\ o[i].tag = n})

\* the events of the children ch of a tag follow each other from position
\* first on and the end tag of the tag follows at position last
ChildrenWritten(o, ch, first, last) ==
    IF ch = <<>> THEN last = first
    ELSE /\ EventAt(o, "Start", ch[1]) = first
         /\ \A j \in 1..(Len(ch) - 1) :
               EventAt(o, "Start", ch[j + 1]) = EventAt(o, "End", ch[j]) + 1
         /\ last = EventAt(o, "End", ch[Len(ch)]) + 1

\* the tag n is written once: its start tag with its attributes, its text if
\* it has one, its children, its end tag
TagWritten(a, o, n) ==
    /\ EventCount(o, "Start", n) = 1
    /\ EventCount(o, "End", n) = 1
    /\ EventCount(o, "Text", n) = IF a[n].hasText THEN 1 ELSE 0
    /\ o[EventAt(o, "Start", n)].name = a[n].name
    /\ o[EventAt(o, "Start", n)].attrs = a[n].attrs
    /\ o[EventAt(o, "End", n)].name = a[n].name
    /\ a[n].hasText =>
          /\ EventAt(o, "Text", n) = EventAt(o, "Start", n) + 1
          /\ o[EventAt(o, "Text", n)].text = a[n].text
    /\ ChildrenWritten(o, a[n].childrens,
                       EventAt(o, "Start", n) + (IF a[n].hasText THEN 2 ELSE 1),
                       EventAt(o, "End", n))

\* no start tag and no end tag written has an empty name
NoEmptyName(o) == \A i \in 1..Len(o) : o[i].kind \in {"Start", "End"} => o[i].name # ""

\* C20: write_to never emits a tag with an empty name: for every tree from_read
\* produced it emits the logical root and its descendants in pre-order (start
\* tag with attributes, text if present, children, end tag), and the synthetic
\* container is not serialized.
C20_WriteToNoEmptyTag ==
    /\ NoEmptyName(wrOut)
    /\ wrpc = "Ok" =>
          /\ root # 1
          /\ wrOut[1] = StartEvent(arena, root)
          /\ \A i \in 1..Len(wrOut) : wrOut[i].tag \in Owned(arena, root)
          /\ \A n \in Owned(arena, root) : TagWritten(arena, wrOut, n)

\* a document that began with a start tag without a name was written: its root
\* has an attribute, a text and a child
C20_Witness ==
    /\ wrpc = "Ok"
    /\ \E n \in 2..Len(arena) : arena[n].name = ""
    /\ arena[root].attrs # <<>>
    /\ arena[root].hasText
    /\ arena[root].childrens # <<>>

-----------------------------------------------------------------------------
(* Reference definitions for the claims about the MT940 to CAMT.053         *)
(* conversion                                                               *)

\* the children of tag n of a that have the name, in their order
Named(a, n, name) ==
    LET Test(c) == a[c].name = name
    IN SelectSeq(a[n].childrens, Test)

Converted == mcpc \in {"again", "done"}

C22_StmtIdIsReference ==
    Converted =>
        \A k \in 1..Len(mcIn) :
            LET stmt == Named(arena, root, "Stmt")[k]
                ids == Named(arena, stmt, "Id")
                seqs == Named(arena, stmt, "ElctrncSeqNb")
            IN /\ Len(ids) = 1
               /\ arena[ids[1]].text = mcIn[k].transaction_ref_no
               /\ Len(seqs) = 1
               /\ arena[seqs[1]].text = mcIn[k].statement_no

\* C23: two conversions of the same messages give the same tags: the same
\* names, texts and attributes in the same structure
C23_ConversionDeterministic ==
    mcpc = "done" => mcTree = arena

-----------------------------------------------------------------------------
(* Reference definitions for the claim about the Bal blocks *)

\* the balance the type code selects, created as the default balance where
\* the message has none, with the values of the block merged into it
MergeBlock(m, b) ==
    IF b.cd = CLBD
    THEN [m EXCEPT !.closing_balance.balance = AvailableMerge(@, b.v.is)]
    ELSE IF b.cd = CLAV
    THEN [m EXCEPT !.closing_available_balance =
             Opt(AvailableMerge(IF @.some THEN @.v ELSE DefaultAvailableBalance, b.v.is))]
    ELSE IF b.cd = FWAV
    THEN [m EXCEPT !.forward_available_balance =
             Opt(AvailableMerge(IF @.some THEN @.v ELSE DefaultAvailableBalance, b.v.is))]
    ELSE [m EXCEPT !.opening_balance.balance = AvailableMerge(@, b.v.is)]

RECURSIVE MergeBlocks(_, _, _)
MergeBlocks(m, bs, k) ==
    IF k > Len(bs) THEN m ELSE MergeBlocks(MergeBlock(m, bs[k]), bs, k + 1)

\* the balances of two messages are the same
SameBalances(m, n) ==
    /\ m.opening_balance = n.opening_balance
    /\ m.closing_balance = n.closing_balance
    /\ m.closing_available_balance = n.closing_available_balance
    /\ m.forward_available_balance = n.forward_available_balance

\* C24: the conversion returns one Message for each Stmt, and the balances of
\* the Message are those of Message::default() with the Bal blocks of its Stmt
\* merged in, in their order, each into the balance its type code selects
\* (OPBD and any other code the opening, CLBD the closing, CLAV the closing
\* available, FWAV the forward available balance), whether Tp is the first or
\* the last child of Bal; for one OPBD and one CLBD block these are the values
\* of the two blocks
C24_BalBlocksMerged ==
    convpc = "done" =>
        /\ Len(conv.result) = Len(docIn)
        /\ \A k \in 1..Len(docIn) :
            SameBalances(conv.result[k], MergeBlocks(Message, docIn[k], 1))

-----------------------------------------------------------------------------
(* Reference definitions for the claim about the parent references *)

\* the tags of `tags` that have n in their children list
Holders(a, tags, n) ==
    {p \in tags : \E i \in 1..Len(a[p].childrens) : a[p].childrens[i] = n}

\* n is at one place only in the children list of p
OnceIn(a, p, n) ==
    Cardinality({i \in 1..Len(a[p].childrens) : a[p].childrens[i] = n}) = 1

\* C25: in a tree that from_read or the conversion from MT940 has returned,
\* every tag but the root is in the children list of exactly one tag of the
\* tree, once, and its parent reference is a reference to that tag, a tag
\* the tree owns
C25_ParentLinks ==
    (rstate = "ok" /\ root # 0) =>
        LET tags == Owned(arena, root)
        IN \A n \in tags \ {root} :
            /\ Holders(arena, tags, n) = {arena[n].parent}
            /\ OnceIn(arena, arena[n].parent, n)

\* a tree read from events with a tag two levels below the root
C25_WitnessRead ==
    /\ rstate = "ok" /\ root # 0 /\ mcpc = "idle"
    /\ \E n \in Owned(arena, root) :
        /\ arena[n].parent \notin {0, root}
        /\ arena[n].parent \in Owned(arena, root)

\* a converted tree of a message with a statement line
C25_Witness ==
    /\ rstate = "ok" /\ root # 0 /\ mcpc = "again"
    /\ \E k \in 1..Len(mcIn) : mcIn[k].statement_lines # <<>>
    /\ \E n \in Owned(arena, root) : arena[n].name = "TxId" /\ Upgrade(n) # 0

-----------------------------------------------------------------------------
\* C26: once next() has returned None, every later next() on the same
\* iterator returns None too: no further TagView is yielded
C26_IteratorSinglePass ==
    [][ended >= 1 => out' = out]_vars

-----------------------------------------------------------------------------
\* C27: when from_read returns Ok, the synthetic root (tag 1) has children
\* and the root of the returned tree is the first of them, also when start
\* tags are still open at the end of the events
C27_RootIsFirstTopLevel ==
    rstate = "ok" =>
        /\ arena[1].childrens # <<>>
        /\ root = arena[1].childrens[1]

-----------------------------------------------------------------------------
(* Reference definitions for the claim about the events of from_read *)

\* the tree after a start tag with the name was read below tag p
WithChild(a, p, name) ==
    Append([a EXCEPT ![p].childrens = Append(@, Len(a) + 1)],
           [name |-> name, text |-> <<>>, hasText |-> FALSE, attrs |-> <<>>,
            childrens |-> <<>>, parent |-> p])

\* from_read has gone on after the event
ReadOn == rstate' = "reading"

\* from_read has returned the error and no tag was created or changed
Failed(kind) == rstate' = kind /\ arena' = arena

-----------------------------------------------------------------------------
\* C29: the closing available and the forward available balance that
\* write_to has written as field 64 and 65 are parsed back: the written blocks
\* parse, and the message parsed from the block of a message has the same
\* closing available and forward available balance
C29_AvailableBalanceRoundTrip ==
    mtpc = "done" =>
        \A k \in 1..Len(mtParsed.messages) :
            LET m == mtParsed.messages[k]
            IN (m.closing_available_balance.some \/ m.forward_available_balance.some) =>
                /\ mtParsed2.err = ""
                /\ Len(mtParsed2.messages) >= k
                /\ mtParsed2.messages[k].closing_available_balance = m.closing_available_balance
                /\ mtParsed2.messages[k].forward_available_balance = m.forward_available_balance

-----------------------------------------------------------------------------
(* Reference definitions for the claim about the blocks write_to writes *)

\* "{4:", the lines of the fields and "-}" for a message that writes a field,
\* nothing for a message that writes none, for the messages from the k-th on
RECURSIVE ExpectedBlocks(_, _)
ExpectedBlocks(ms, k) ==
    IF k > Len(ms) THEN <<>>
    ELSE LET fields == WriteMessage(ms[k])
         IN (IF fields # <<>>
             THEN <<OpenPiece>> \o [i \in 1..Len(fields) |-> LinePiece(fields[i])] \o <<ClosePiece>>
             ELSE <<>>)
            \o ExpectedBlocks(ms, k + 1)

NotOther(p) == p.piece # "other"

\* C30: what write_to writes besides the entries of other_data is, for every
\* message that writes a field, in the order of the messages, one "{4:", the
\* lines of its fields and one "-}", and nothing for a message that writes no
\* field; an entry of other_data is never written inside a block
C30_OneBlockPerMessage ==
    wtpc = "Ok" =>
        /\ SelectSeq(wtOut, NotOther) = ExpectedBlocks(wtIn.transactions, 1)
        /\ \A i \in 2..Len(wtOut) :
            wtOut[i].piece = "other" => wtOut[i - 1].piece \in {"-}", "other"}

\* two messages were written, the first wrote no field, the second several,
\* and other_data has an entry for each and one more
C30_Witness ==
    /\ wtpc = "Ok"
    /\ Len(wtIn.transactions) = 2
    /\ Len(wtIn.other_data) = 3
    /\ WriteMessage(wtIn.transactions[1]) = <<>>
    /\ Len(WriteMessage(wtIn.transactions[2])) > 2
    /\ Len(wtOut) > 5

-----------------------------------------------------------------------------
(* Reference definitions for the claim about the fields write_to leaves out *)

\* the number of lines written with one of the tags
LinesWritten(tags) ==
    Cardinality({i \in 1..Len(wtOut) : wtOut[i].piece = "field" /\ wtOut[i].tag \in tags})

\* the number of messages written that satisfy Has
MessagesWith(Has(_)) ==
    Cardinality({k \in 1..Len(wtIn.transactions) : Has(wtIn.transactions[k])})

HasOpening(m) == ~DecIsZero(m.opening_balance.balance.amount)
HasClosing(m) == ~DecIsZero(m.closing_balance.balance.amount)
HasClosingAvailable(m) ==
    m.closing_available_balance.some /\ ~DecIsZero(m.closing_available_balance.v.amount)
HasForwardAvailable(m) ==
    m.forward_available_balance.some /\ ~DecIsZero(m.forward_available_balance.v.amount)
HasRelated(m) == m.ref_to_related_msg.some

\* the narratives there are to write: that of the message and those of its
\* statement lines
Narratives ==
    MessagesWith(LAMBDA m : m.information_to_account_owner.some)
    + Cardinality(UNION { { <<k, j>> : j \in { i \in 1..Len(wtIn.transactions[k].statement_lines) :
                                  wtIn.transactions[k].statement_lines[i].information_to_account_owner.some } } :
                          k \in 1..Len(wtIn.transactions) })

\* C31: write_to writes a balance field (60F or 60M, 62F or 62M, 64, 65) only
\* for a balance whose amount is not zero, a field 64 and 65 only for an
\* available balance that is there, a field 21 only for a related reference
\* that is there and a field 86 only for a narrative that is there
C31_ZeroAndAbsentSuppressed ==
    wtpc = "Ok" =>
        /\ LinesWritten({"60F", "60M"}) <= MessagesWith(HasOpening)
        /\ LinesWritten({"62F", "62M"}) <= MessagesWith(HasClosing)
        /\ LinesWritten({"64"}) <= MessagesWith(HasClosingAvailable)
        /\ LinesWritten({"65"}) <= MessagesWith(HasForwardAvailable)
        /\ LinesWritten({"21"}) <= MessagesWith(HasRelated)
        /\ LinesWritten({"86"}) <= Narratives


\* the texts of the children of n with the given name, in their order
TextsOf(a, n, name) ==
    [i \in 1..Len(Named(a, n, name)) |-> a[Named(a, n, name)[i]].text]

\* C32: in the converted tree the Stmt of a Message has exactly one Ntry for
\* each of its statement lines, in the order of the lines; the CdtDbtInd of
\* the Ntry is DBIT for Debit and ReverseDebit and CRDT for Credit and
\* ReverseCredit, its RvslInd is "true" exactly for ReverseDebit and
\* ReverseCredit, and a bank reference that is present is the text of an
\* AcctSvcrRef of the Ntry and of a TxId in NtryDtls/TxDtls/Refs, which are
\* not there without a bank reference
C32_NtryPerStatementLine ==
    Converted =>
        /\ Len(Named(arena, root, "Stmt")) = Len(mcIn)
        /\ \A k \in 1..Len(mcIn) :
            LET stmt == Named(arena, root, "Stmt")[k]
                ntrys == Named(arena, stmt, "Ntry")
                lines == mcIn[k].statement_lines
            IN /\ Len(ntrys) = Len(lines)
               /\ \A j \in 1..Len(lines) :
                    LET ind == lines[j].ext_debit_credit_indicator
                        dtls == Named(arena, ntrys[j], "NtryDtls")
                        txs == Named(arena, dtls[1], "TxDtls")
                        refs == Named(arena, txs[1], "Refs")
                        wanted == IF lines[j].bank_ref.some THEN <<lines[j].bank_ref.v>> ELSE <<>>
                    IN /\ arena[ntrys[j]].parent = stmt
                       /\ TextsOf(arena, ntrys[j], "CdtDbtInd") =
                            <<IF ind \in {"Debit", "ReverseDebit"}
                              THEN <<"D", "B", "I", "T">> ELSE <<"C", "R", "D", "T">> >>
                       /\ TextsOf(arena, ntrys[j], "RvslInd") =
                            <<IF ind \in {"ReverseDebit", "ReverseCredit"}
                              THEN <<"t", "r", "u", "e">> ELSE <<"f", "a", "l", "s", "e">> >>
                       /\ TextsOf(arena, ntrys[j], "AcctSvcrRef") = wanted
                       /\ Len(dtls) = 1 /\ Len(txs) = 1 /\ Len(refs) = 1
                       /\ TextsOf(arena, refs[1], "TxId") = wanted
                       /\ TextsOf(arena, refs[1], "EndToEndId") = <<lines[j].customer_ref>>

C32_Witness ==
    /\ mcpc = "again"
    /\ Len(mcIn) = 2
    /\ Len(mcIn[1].statement_lines) = 2
    /\ mcIn[1].statement_lines[1].ext_debit_credit_indicator = "ReverseDebit"
    /\ mcIn[1].statement_lines[2].ext_debit_credit_indicator = "ReverseCredit"
    /\ mcIn[2].statement_lines # <<>>
    /\ mcIn[2].statement_lines[1].ext_debit_credit_indicator = "Debit"
    /\ mcIn[2].statement_lines[1].bank_ref.some
    /\ Len(Named(arena, Named(arena, root, "Stmt")[1], "Ntry")) = 2


\* C33: when the header of the document has an OrgnlBizQry/MsgId, every
\* Message of the converted MT940Format has that id as its reference to the
\* related message, the first, the middle and the last one alike
C33_RelatedReferenceOnEveryMessage ==
    (convpc = "done" /\ docIn.hdr) =>
        \A k \in 1..Len(conv.result) :
            conv.result[k].ref_to_related_msg = Opt(<<"Q">>)


\* the segments of other_data one behind the other
RECURSIVE FlattenOther(_)
FlattenOther(segments) ==
    IF segments = <<>> THEN <<>> ELSE Head(segments) \o FlattenOther(Tail(segments))

\* the pieces of a line from its i-th piece on that are outside block 4, for
\* a line that begins inside a block or outside: the opening delimiter and
\* what follows it up to the closing delimiter are not, the closing delimiter
\* of an open block is not
RECURSIVE OutsideBlock4(_, _, _)
OutsideBlock4(line, i, inside) ==
    IF i > Len(line) THEN <<>>
    ELSE IF line[i].k = "start" THEN OutsideBlock4(line, i + 1, TRUE)
    ELSE IF line[i].k = "end" /\ inside THEN OutsideBlock4(line, i + 1, FALSE)
    ELSE IF inside THEN OutsideBlock4(line, i + 1, TRUE)
    ELSE <<line[i]>> \o OutsideBlock4(line, i + 1, FALSE)

\* C34: a line that from_read takes adds to other_data exactly its text
\* outside block 4, unchanged and behind what is there: the text in front of
\* the opening delimiter, the text behind the closing delimiter, the whole
\* line when it is outside any block, and nothing of the payload of a block
C34_OtherDataIsTextOutsideBlock4 ==
    [][(rdN' = rdN + 1 /\ rdpc' = "lines") =>
        FlattenOther(rd'.other_data) =
            FlattenOther(rd.other_data)
            \o OutsideBlock4(rdLine', 1, rd.state = "Accumulate")]_vars


\* the place of a scanner state in the order Before, Header, Data, After
StateRank(state) ==
    IF state = "Before" THEN 1 ELSE IF state = "Header" THEN 2
    ELSE IF state = "Data" THEN 3 ELSE 4

\* the trimmed cells of the record read last, and those in the header span
CellsRead(rec) == [k \in 1..Len(rec) |-> Trim(rec[k])]
SpanRead(st, rec) ==
    [k \in 1..(st.last - st.first + 1) |-> CellsRead(rec)[st.first + k - 1]]

HasDigit(cell) == \E j \in 1..Len(cell) : IsDigit(cell[j])

\* a record has been read and the loop goes on
RecordScanned == scanN' = scanN + 1 /\ scanpc' = "records"

\* C35: the scanner state only moves forward in the order Before, Header,
\* Data, After.  A row read in Before is added to the prologue, unless it has
\* the cell "Дата проводки", which opens the header; the first row read in
\* Header with a digit in the span is the first table row and opens Data; the
\* first row of empty cells read in Data is the first epilogue row and opens
\* After; every row read in After is added to the epilogue, none to the table
C35_ScannerAdvances ==
    [][RecordScanned =>
        LET cells == CellsRead(scanRec')
            span == SpanRead(scan, scanRec')
            isHeader == \E k \in 1..Len(cells) : cells[k] = DateColumn
            spanDigit == \E k \in 1..Len(span) : HasDigit(span[k])
            allEmpty == \A k \in 1..Len(cells) : cells[k] = <<>>
        IN /\ StateRank(scan'.state) >= StateRank(scan.state)
           /\ scan.state = "Before" =>
                /\ scan'.state = IF isHeader THEN "Header" ELSE "Before"
                /\ scan'.other_before =
                     IF isHeader THEN scan.other_before ELSE Append(scan.other_before, cells)
                /\ scan'.table = <<>> /\ scan'.other_after = <<>>
           /\ scan.state = "Header" =>
                /\ scan'.state = IF spanDigit THEN "Data" ELSE "Header"
                /\ scan'.table = IF spanDigit THEN <<span>> ELSE <<>>
                /\ scan'.other_before = scan.other_before /\ scan'.other_after = <<>>
           /\ scan.state = "Data" =>
                /\ scan'.state = IF allEmpty THEN "After" ELSE "Data"
                /\ scan'.other_after = IF allEmpty THEN <<cells>> ELSE <<>>
                /\ scan'.table = IF allEmpty THEN scan.table ELSE Append(scan.table, span)
                /\ scan'.other_before = scan.other_before
           /\ scan.state = "After" =>
                /\ scan'.state = "After"
                /\ scan'.other_after = Append(scan.other_after, cells)
                /\ scan'.table = scan.table
                /\ scan'.other_before = scan.other_before]_vars

C35_Witness ==
    /\ scanpc = "records"
    /\ scan.state = "After"
    /\ scan.other_before # <<>>
    /\ scan.table # <<>>
    /\ Len(scan.other_after) = 2
    /\ scan.other_after[2] # <<EmptyCell>>
    /\ \E k \in 1..Len(scanRec) : scanRec[k] # EmptyCell


\* from_read has ended: it has returned or aborted
ScanEnded == scanpc \in {"Ok", "DataFormatError", "panic"}

\* C36: a CSVFormat that from_read returns has columns and a table that are
\* not empty, and every row of the table has as many cells as there are
\* columns; when no header cell was found or no data row was collected
\* from_read ends with DataFormatError
C36_TableInvariant ==
    /\ scanpc = "Ok" =>
        /\ scan.columns # <<>>
        /\ scan.table # <<>>
        /\ \A k \in 1..Len(scan.table) : Len(scan.table[k]) = Len(scan.columns)
    /\ (ScanEnded /\ (scan.state = "Before" \/ scan.table = <<>>)) =>
        scanpc = "DataFormatError"

\* C37: from_read takes rows of any number of cells: whatever the records,
\* rows behind the header row that end in front of the end of the header
\* span included, it returns Ok or a FormatError and does not abort
C37_FromReadNeverAborts == scanpc # "panic"


\* C38: the transactions collect_transactions returns for the Camt053Format
\* made from an MT940Format are those it returns for the MT940Format itself:
\* as many, in the same order, with the same amount, currency, date and
\* operation type, whatever the debit/credit indicator of the statement lines
C38_ConversionKeepsTransactions ==
    (mcpc = "again" /\ colpc = "done") => transactions = Mt940CollectTransactions(mcIn)


\* the number of statement lines of the messages
RECURSIVE StatementLinesIn(_)
StatementLinesIn(messages) ==
    IF messages = <<>> THEN 0
    ELSE Len(messages[1].statement_lines) + StatementLinesIn(Tail(messages))

\* the number of Ntry of the Stmt subtrees
RECURSIVE EntriesIn(_)
EntriesIn(stmts) ==
    IF stmts = <<>> THEN 0 ELSE Len(stmts[1].ntry) + EntriesIn(Tail(stmts))

\* C39: the conversion of a document with several Stmt makes one Message for
\* each Stmt, in the order of the document; the entries and the balances of
\* the k-th Stmt are in the k-th Message and in no other; the statement lines
\* of all the Messages are as many as the Ntry of the document
C39_StmtContentsStayInTheirMessage ==
    convpc = "done" =>
        /\ Len(conv.result) = Len(docIn.stmts)
        /\ \A k \in 1..Len(docIn.stmts) :
            LET st == docIn.stmts[k]
                m == conv.result[k]
            IN /\ st.hasId => m.transaction_ref_no = ConvId(k)
               /\ Len(m.statement_lines) = Len(st.ntry)
               /\ HasBal(st, OPBD) <=> m.opening_balance # DefaultBalance
               /\ HasBal(st, CLBD) <=> m.closing_balance # DefaultBalance
               /\ HasBal(st, CLAV) <=> m.closing_available_balance # None
        /\ StatementLinesIn(conv.result) = EntriesIn(docIn.stmts)


\* the line read last closes the block that is accumulating: it has no
\* opening delimiter and it has a closing delimiter
ClosesBlock(l, line) ==
    /\ l.state = "Accumulate"
    /\ FindPiece(line, "start") = 0
    /\ FindPiece(line, "end") # 0

\* C40: from_read appends Messages to the document only when it reads a line
\* with the closing delimiter while a block 4 is accumulating: the Messages
\* are those of the accumulated payload, and after the line the accumulator
\* is empty and the state is Empty again; when the input ends while a block 4
\* is accumulating from_read returns Ok, and the fields of that block add no
\* Message and raise no error
C40_MessagesOnlyAtClosingDelimiter ==
    [][/\ (rdN' = rdN + 1 /\ rd'.transactions # rd.transactions) => ClosesBlock(rd, rdLine')
       /\ (rdN' = rdN + 1 /\ rdpc' = "lines" /\ ClosesBlock(rd, rdLine')) =>
            /\ rd'.transactions =
                 rd.transactions
                 \o parse_block4(FieldsOf(rd.accum
                        \o SubSeq(rdLine', 1, FindPiece(rdLine', "end") - 1))).messages
            /\ rd'.accum = <<>>
            /\ rd'.state = "Empty"
       /\ (rdN' = rdN /\ rdpc = "lines" /\ rdpc' # "lines") =>
            /\ rdpc' = "Ok"
            /\ rd'.transactions = rd.transactions]_vars

C40_Witness ==
    /\ rdpc = "Ok"
    /\ ~rdBroken
    /\ rd.state = "Accumulate"
    /\ FieldsOf(rd.accum) # <<>>
    /\ Len(rd.transactions) = 1
    /\ rd.transactions[1].transaction_ref_no = <<"T", "1">>

=============================================================================
